---- MODULE Spec2Model ----
(***************************************************************************)
(* Retention-based quiz scheduling of the tutoring platform:               *)
(*   RetentionAlgorithm      (static class at the end of backend/server.js)*)
(*   EnhancedQuizController  (the quiz controller that calls it)           *)
(* and the services around it:                                             *)
(*   MeetingRequestController, MessageController, the socket handlers of   *)
(*   backend/server.js, and the frontend's WindowManager.                  *)
(*                                                                         *)
(* Number representation.  The source computes in IEEE doubles; the model  *)
(* computes in integers:                                                   *)
(*   - instants and durations are counted in ticks, TicksPerDay ticks to   *)
(*     the day (the source counts milliseconds and divides by             *)
(*     1000*60*60*24), so a duration in days is the fraction              *)
(*     ticks / TicksPerDay;                                                *)
(*   - a learning strength S is held in hundredths of a day (S = 5 days    *)
(*     is 500);                                                            *)
(*   - the retention of scoreToRetention is a whole percentage;            *)
(*   - Math.log is tabulated in units of 1/10000 at the arguments used;    *)
(*   - NaN is the empty tuple and a number n is the tuple <<n>> wherever   *)
(*     the source can produce NaN.                                         *)
(***************************************************************************)
EXTENDS Integers, Sequences, FiniteSets, TLC

\* ------------------------------------------------------------------ bounds
TicksPerDay == 2
MaxQuizzes == 3
MaxAttempts == 2
MaxClock == 6
MaxGap == 3
MaxDecay == 8
MaxScores == 5
MaxRequests == 1
MaxSends == 2
MaxSockets == 2
MaxListeners == 1

\* ------------------------------------------------- constants of the source
DefaultS == 5
MinS == 1
MaxS == 60
DefaultThreshold == 40
LowScore == 70
MaxCurveDay == 30
DefaultLimit == 20

\* ------------------------------------------------------------ JS numerics
NaN == <<>>
Num(n) == <<n>>
IsNaN(x) == x = NaN

\* S given in whole days, in the model's unit (hundredths of a day).
SDays(d) == d * 100

\* IEEE +Infinity: larger than every finite value the model handles.
Infinity == 2 ^ 30

\* Math.max / Math.min on finite numbers.
MathMax(a, b) == IF a >= b THEN a ELSE b
MathMin(a, b) == IF a <= b THEN a ELSE b

\* Math.round(n / d) for d > 0: the nearest integer, halves towards +Infinity.
MathRoundDiv(n, d) == (2 * n + d) \div (2 * d)

\* Math.abs
MathAbs(n) == IF n < 0 THEN 0 - n ELSE n

\* Math.log(x) * 10000, rounded, at the arguments the model uses.
MathLogE4(x) ==
    CASE x = 1   -> 0
      [] x = 10  -> 23026
      [] x = 20  -> 29957
      [] x = 40  -> 36889
      [] x = 45  -> 38067
      [] x = 60  -> 40943
      [] x = 75  -> 43175
      [] x = 85  -> 44427
      [] x = 90  -> 44998
      [] x = 95  -> 45539
      [] x = 100 -> 46052
      [] x = 150 -> 50106

\* ------------------------------------------------------ RetentionAlgorithm

\* Math.exp(-k) * 10^8 for a whole k >= 0 (below 10^-4 from k = 10 on, which
\* is 0 in the unit of MathExpNegE4).
ExpNegWhole(k) ==
    CASE k = 0 -> 100000000 [] k = 1 -> 36787944 [] k = 2 -> 13533528
      [] k = 3 -> 4978707   [] k = 4 -> 1831564  [] k = 5 -> 673795
      [] k = 6 -> 247875    [] k = 7 -> 91188    [] k = 8 -> 33546
      [] k = 9 -> 12341     [] OTHER -> 0

\* Math.exp(-j / 10) * 10000 for j in 0..9.
ExpNegTenth(j) ==
    CASE j = 0 -> 10000 [] j = 1 -> 9048 [] j = 2 -> 8187 [] j = 3 -> 7408
      [] j = 4 -> 6703  [] j = 5 -> 6065 [] j = 6 -> 5488 [] j = 7 -> 4966
      [] j = 8 -> 4493  [] j = 9 -> 4066

\* The integer part of a * b / 10000 for 0 <= a <= 10^8 and 0 <= b <= 10^4,
\* with every intermediate value inside 32 bits.
MulDivE4(a, b) == (a \div 10000) * b + ((a % 10000) * b) \div 10000

\* Math.exp(-x) * 10000 for x = xm / 1000 >= 0: the whole part and the tenths
\* from the tables, the rest y < 0.1 from 1 - y + y^2 / 2.  The product is
\* carried in units of 10^-8, so that the result does not rise with xm.
MathExpNegE4(xm) ==
    LET k == xm \div 1000
        j == (xm % 1000) \div 100
        y == xm % 100
        rest == 10000 - 10 * y + (y * y) \div 200
    IN  MulDivE4(MulDivE4(ExpNegWhole(k), ExpNegTenth(j)), rest) \div 10000

\* Mutant of calculateRetention: the quotient is S / t.
calculateRetentionSwapped(t, S) ==
    IF S <= 0 THEN 0
    ELSE IF t <= 0 THEN 0
    ELSE MathMax(0, MathMin(10000, MathExpNegE4((10 * S * TicksPerDay) \div t)))

\* Mutant of calculateRetention: no test of S <= 0, so a negative S reaches
\* Math.exp with a positive argument for t > 0.
calculateRetentionNoGuard(t, S) ==
    IF S = 0 THEN (IF t < 0 THEN 10000 ELSE 0)
    ELSE IF (t <= 0) = (S > 0) THEN 10000
    ELSE MathMax(0, MathMin(10000, MathExpNegE4((100000 * MathAbs(t)) \div (TicksPerDay * MathAbs(S)))))

\* calculateRetention(t, S): t in ticks, S in hundredths of a day, the result
\* in hundredths of a percent.  t / S = 100 * ticks / (TicksPerDay * S).
\* For t <= 0 Math.exp(-t / S) >= 1 and Math.min(100, .) returns 100.
calculateRetention(t, S) ==
    IF S <= 0 THEN 0
    ELSE IF t <= 0 THEN 10000
    ELSE MathMax(0, MathMin(10000, MathExpNegE4((100000 * t) \div (TicksPerDay * S))))

\* Mutant of scoreToRetention: the bands exclude their lower boundary.
scoreToRetentionExclusive(score) ==
    IF score > 90 THEN 95
    ELSE IF score > 80 THEN 85
    ELSE IF score > 70 THEN 75
    ELSE IF score > 60 THEN 60
    ELSE IF score > 50 THEN 45
    ELSE IF 4 * score > 200 THEN (4 * score) \div 10 ELSE 20

\* scoreToRetention(score): a whole percentage.  score * 0.4 is 4*score/10.
scoreToRetention(score) ==
    IF score >= 90 THEN 95
    ELSE IF score >= 80 THEN 85
    ELSE IF score >= 70 THEN 75
    ELSE IF score >= 60 THEN 60
    ELSE IF score >= 50 THEN 45
    ELSE IF 4 * score > 200 THEN (4 * score) \div 10 ELSE 20

\* timeDiff / Math.log(R0 / R) before the clamp, for timeDiff > 0, R0 > 0 and
\* R > 0: timeDiff in ticks, the result in hundredths of a day.
\*   timeDiff in days = ticks / TicksPerDay,
\*   Math.log(R0 / R) = (MathLogE4(R0) - MathLogE4(R)) / 10000,
\* so S * 100 = ticks * 100 * 10000 / (TicksPerDay * lnRatio).
\* R0 = R makes the divisor 0 and S = +Infinity; R0 < R makes S negative.
strengthQuotient(timeDiff, R0, R) ==
    LET lnRatio == MathLogE4(R0) - MathLogE4(R)
    IN  IF lnRatio = 0 THEN Infinity
        ELSE IF lnRatio > 0
             THEN (timeDiff * 1000000) \div (TicksPerDay * lnRatio)
             ELSE 0 - ((timeDiff * 1000000) \div (TicksPerDay * (0 - lnRatio)))

\* Mutant of calculateLearningStrength: the ratio test is retentionRatio <= 1,
\* so equal or risen retentions give the default.
calculateLearningStrengthRatioGuard(t, t0, R0, R) ==
    LET timeDiff == t - t0
    IN  IF timeDiff <= 0 \/ R <= 0 \/ R0 <= 0 THEN SDays(DefaultS)
        ELSE IF R0 <= R THEN SDays(DefaultS)
        ELSE MathMax(SDays(MinS), MathMin(SDays(MaxS), strengthQuotient(timeDiff, R0, R)))

\* Mutant of calculateLearningStrength: the lower clamp Math.max(1, .) left out.
calculateLearningStrengthNoFloor(t, t0, R0, R) ==
    LET timeDiff == t - t0
    IN  IF timeDiff <= 0 \/ R <= 0 \/ R0 <= 0 THEN SDays(DefaultS)
        ELSE MathMin(SDays(MaxS), strengthQuotient(timeDiff, R0, R))

\* Mutant of calculateLearningStrength: a zero time gap reaches the formula.
calculateLearningStrengthZeroGap(t, t0, R0, R) ==
    LET timeDiff == t - t0
    IN  IF timeDiff < 0 \/ R <= 0 \/ R0 <= 0 THEN SDays(DefaultS)
        ELSE MathMax(SDays(MinS), MathMin(SDays(MaxS), strengthQuotient(timeDiff, R0, R)))

\* calculateLearningStrength(t, t0, R0, R): t and t0 in ticks, R0 and R in
\* percent, the result in hundredths of a day.  The test retentionRatio <= 0
\* of the source cannot succeed once R > 0 and R0 > 0 have passed, and has no
\* branch here.
calculateLearningStrength(t, t0, R0, R) ==
    LET timeDiff == t - t0
    IN  IF timeDiff <= 0 \/ R <= 0 \/ R0 <= 0 THEN SDays(DefaultS)
        ELSE MathMax(SDays(MinS), MathMin(SDays(MaxS), strengthQuotient(timeDiff, R0, R)))

\* Mutant of calculateNextReviewDays: Math.floor in place of Math.round.
calculateNextReviewDaysFloor(S, retentionThreshold) ==
    IF retentionThreshold <= 0 THEN 1
    ELSE LET negLog == MathLogE4(100) - MathLogE4(retentionThreshold)
         IN  MathMax(1, (S * negLog) \div 1000000)

\* Mutant of calculateNextReviewDays: the rounded day is not floored at 1.
calculateNextReviewDaysNoFloor(S, retentionThreshold) ==
    IF retentionThreshold <= 0 THEN 1
    ELSE LET negLog == MathLogE4(100) - MathLogE4(retentionThreshold)
         IN  MathRoundDiv(S * negLog, 1000000)

\* calculateNextReviewDays(S, retentionThreshold): whole days.
\*   -S * Math.log(threshold / 100) = S * (MathLogE4(100) - MathLogE4(threshold)) / 10000
\* with S in hundredths of a day, so the value in days is that over 100 * 10000.
calculateNextReviewDays(S, retentionThreshold) ==
    IF retentionThreshold <= 0 THEN 1
    ELSE LET negLog == MathLogE4(100) - MathLogE4(retentionThreshold)
         IN  MathMax(1, MathRoundDiv(S * negLog, 1000000))

\* calculateNextReviewDate(S, lastReviewDate): setDate(getDate() + days) moves
\* the instant by whole calendar days.
calculateNextReviewDate(S, lastReviewDate) ==
    lastReviewDate + calculateNextReviewDays(S, DefaultThreshold) * TicksPerDay

\* Mutant of updateLearningStrength: the strength of a repeat attempt is not
\* floored at 1 day.
updateLearningStrengthNoFloor(attemptHistory, currentScore, currentDate) ==
    IF Len(attemptHistory) = 0
    THEN [S |-> SDays(DefaultS), retention |-> scoreToRetention(currentScore),
          firstAttempt |-> TRUE]
    ELSE LET lastAttempt == attemptHistory[Len(attemptHistory)]
             timeDiff == currentDate - lastAttempt.date
             previousRetention == scoreToRetention(lastAttempt.score)
             currentRetention == scoreToRetention(currentScore)
         IN  [S |-> calculateLearningStrengthNoFloor(timeDiff, 0, previousRetention,
                                                     currentRetention),
              retention |-> currentRetention,
              timeSinceLastReview |-> timeDiff,
              previousRetention |-> previousRetention]

\* Mutant of updateLearningStrength: the retention of a first attempt is the
\* raw score.
updateLearningStrengthRawScore(attemptHistory, currentScore, currentDate) ==
    IF Len(attemptHistory) = 0
    THEN [S |-> SDays(DefaultS), retention |-> currentScore, firstAttempt |-> TRUE]
    ELSE LET lastAttempt == attemptHistory[Len(attemptHistory)]
             timeDiff == currentDate - lastAttempt.date
             previousRetention == scoreToRetention(lastAttempt.score)
             currentRetention == scoreToRetention(currentScore)
         IN  [S |-> calculateLearningStrength(timeDiff, 0, previousRetention, currentRetention),
              retention |-> currentRetention,
              timeSinceLastReview |-> timeDiff,
              previousRetention |-> previousRetention]

\* Mutant of updateLearningStrength: the previous retention is the one stored
\* on the last attempt.
updateLearningStrengthStoredRetention(attemptHistory, currentScore, currentDate) ==
    IF Len(attemptHistory) = 0
    THEN [S |-> SDays(DefaultS), retention |-> scoreToRetention(currentScore),
          firstAttempt |-> TRUE]
    ELSE LET lastAttempt == attemptHistory[Len(attemptHistory)]
             timeDiff == currentDate - lastAttempt.date
             previousRetention == lastAttempt.retention
             currentRetention == scoreToRetention(currentScore)
         IN  [S |-> calculateLearningStrength(timeDiff, 0, previousRetention, currentRetention),
              retention |-> currentRetention,
              timeSinceLastReview |-> timeDiff,
              previousRetention |-> previousRetention]

\* updateLearningStrength(attemptHistory, currentScore), with currentDate the
\* instant its new Date() returns.  timeDiff is in ticks.
updateLearningStrength(attemptHistory, currentScore, currentDate) ==
    IF Len(attemptHistory) = 0
    THEN [S |-> SDays(DefaultS), retention |-> scoreToRetention(currentScore),
          firstAttempt |-> TRUE]
    ELSE LET lastAttempt == attemptHistory[Len(attemptHistory)]
             timeDiff == currentDate - lastAttempt.date
             previousRetention == scoreToRetention(lastAttempt.score)
             currentRetention == scoreToRetention(currentScore)
         IN  [S |-> calculateLearningStrength(timeDiff, 0, previousRetention, currentRetention),
              retention |-> currentRetention,
              timeSinceLastReview |-> timeDiff,
              previousRetention |-> previousRetention]

\* ------------------------------------------------------------- JS objects
\* null (of lastAttempt).
Null == [null |-> TRUE]
IsNull(o) == "null" \in DOMAIN o

\* new Date(o.field) as an instant in ticks; a missing property is undefined
\* and new Date(undefined) is the invalid date, whose arithmetic gives NaN.
DateOf(o, field) == IF field \in DOMAIN o THEN Num(o[field]) ELSE NaN

\* (a - b) of two dates, in ticks, or NaN.
DateDiff(a, b) == IF IsNaN(a) \/ IsNaN(b) THEN NaN ELSE Num(a[1] - b[1])

\* x <= n for x a number or NaN (every comparison with NaN is false).
NumLeq(x, n) == ~IsNaN(x) /\ x[1] <= n

\* Math.max(0, x): NaN for NaN.
MathMaxZero(x) == IF IsNaN(x) THEN NaN ELSE Num(MathMax(0, x[1]))

\* o.S || 5
StrengthOrDefault(o) == IF "S" \in DOMAIN o /\ o.S # 0 THEN o.S ELSE SDays(DefaultS)

\* ------------------------------------------------- getQuizRecommendations
priorityOrder(p) == CASE p = "high" -> 0 [] p = "medium" -> 1 [] p = "low" -> 2

\* Mutant of newQuizResult: a never-attempted quiz is reported as not due.
newQuizResultNotDue(quiz) ==
    [priority |-> "high", reason |-> [text |-> "New quiz - never attempted"],
     daysUntilDue |-> Num(0), isDue |-> FALSE] @@ quiz

\* The result object of a quiz without lastAttempt.  The spread ...quiz
\* copies the quiz's own fields.
newQuizResult(quiz) ==
    [priority |-> "high", reason |-> [text |-> "New quiz - never attempted"],
     daysUntilDue |-> Num(0), isDue |-> TRUE] @@ quiz

\* Mutant of priorityAndReason: the low-score test comes before 'Due soon'.
priorityAndReasonScoreFirst(daysUntilDue, isDue, score) ==
    IF isDue
    THEN [priority |-> "high",
          reason |-> [text |-> "Overdue by N days",
                      N |-> MathRoundDiv(MathAbs(daysUntilDue[1]), TicksPerDay)]]
    ELSE IF score < LowScore
    THEN [priority |-> "high", reason |-> [text |-> "Low score - needs reinforcement"]]
    ELSE IF NumLeq(daysUntilDue, TicksPerDay)
    THEN [priority |-> "medium", reason |-> [text |-> "Due soon"]]
    ELSE [priority |-> "low", reason |-> [text |-> "Review upcoming"]]

\* The if / else-if chain that sets priority and reason.  daysUntilDue is in
\* ticks (days = ticks / TicksPerDay), or NaN; the reason
\* `Overdue by ${Math.round(Math.abs(daysUntilDue))} days` is held as its
\* text and its N.
priorityAndReason(daysUntilDue, isDue, score) ==
    IF isDue
    THEN [priority |-> "high",
          reason |-> [text |-> "Overdue by N days",
                      N |-> MathRoundDiv(MathAbs(daysUntilDue[1]), TicksPerDay)]]
    ELSE IF NumLeq(daysUntilDue, TicksPerDay)
    THEN [priority |-> "medium", reason |-> [text |-> "Due soon"]]
    ELSE IF score < LowScore
    THEN [priority |-> "high", reason |-> [text |-> "Low score - needs reinforcement"]]
    ELSE [priority |-> "low", reason |-> [text |-> "Review upcoming"]]

\* Mutant of reportedDaysUntilDue: the signed value is reported.
reportedDaysUntilDueSigned(daysUntilDue) == daysUntilDue

\* daysUntilDue: Math.max(0, daysUntilDue) of the result object.
reportedDaysUntilDue(daysUntilDue) == MathMaxZero(daysUntilDue)

\* Mutant of attemptedResult: the retention is the one stored on the attempt.
attemptedResultStoredRetention(quiz, now) ==
    LET nextReviewDate == DateOf(quiz.lastAttempt, "nextReviewDate")
        daysUntilDue == DateDiff(nextReviewDate, Num(now))
        isDue == NumLeq(daysUntilDue, 0)
        pr == priorityAndReason(daysUntilDue, isDue, quiz.lastAttempt.score)
    IN  [priority |-> pr.priority, reason |-> pr.reason,
         daysUntilDue |-> reportedDaysUntilDue(daysUntilDue), isDue |-> isDue,
         retention |-> quiz.lastAttempt.retention * 100] @@ quiz

\* The result object of a quiz with a lastAttempt.
attemptedResult(quiz, now) ==
    LET lastAttemptDate == DateOf(quiz.lastAttempt, "date")
        nextReviewDate == DateOf(quiz.lastAttempt, "nextReviewDate")
        daysSinceReview == DateDiff(Num(now), lastAttemptDate)
        daysUntilDue == DateDiff(nextReviewDate, Num(now))
        isDue == NumLeq(daysUntilDue, 0)
        pr == priorityAndReason(daysUntilDue, isDue, quiz.lastAttempt.score)
    IN  [priority |-> pr.priority, reason |-> pr.reason,
         daysUntilDue |-> reportedDaysUntilDue(daysUntilDue), isDue |-> isDue,
         retention |-> calculateRetention(daysSinceReview[1],
                                          StrengthOrDefault(quiz.lastAttempt))] @@ quiz

\* The callback of quizzes.map(...).
recommendationOf(quiz, now) ==
    IF IsNull(quiz.lastAttempt) THEN newQuizResult(quiz) ELSE attemptedResult(quiz, now)

\* The comparator of .sort(...).  A NaN result counts as +0 (SortCompare).
compareRecommendations(a, b) ==
    LET priorityDiff == priorityOrder(a.priority) - priorityOrder(b.priority)
    IN  IF priorityDiff # 0 THEN priorityDiff
        ELSE IF IsNaN(a.daysUntilDue) \/ IsNaN(b.daysUntilDue) THEN 0
        ELSE a.daysUntilDue[1] - b.daysUntilDue[1]

\* Mutant of sortInsert: an equal element is passed, so ties swap.
RECURSIVE sortInsertUnstable(_, _)
sortInsertUnstable(sorted, x) ==
    IF sorted = <<>> THEN <<x>>
    ELSE IF compareRecommendations(sorted[Len(sorted)], x) < 0 THEN Append(sorted, x)
    ELSE Append(sortInsertUnstable(SubSeq(sorted, 1, Len(sorted) - 1), x), sorted[Len(sorted)])

\* Array.prototype.sort is stable: x, which follows every element of sorted
\* in the array, goes behind the last element that does not compare greater.
RECURSIVE sortInsert(_, _)
sortInsert(sorted, x) ==
    IF sorted = <<>> THEN <<x>>
    ELSE IF compareRecommendations(sorted[Len(sorted)], x) <= 0 THEN Append(sorted, x)
    ELSE Append(sortInsert(SubSeq(sorted, 1, Len(sorted) - 1), x), sorted[Len(sorted)])

RECURSIVE arraySort(_)
arraySort(arr) ==
    IF arr = <<>> THEN <<>>
    ELSE sortInsert(arraySort(SubSeq(arr, 1, Len(arr) - 1)), arr[Len(arr)])

\* getQuizRecommendations(quizzes) with now = new Date() read once.
getQuizRecommendations(quizzes, now) ==
    arraySort([i \in 1..Len(quizzes) |-> recommendationOf(quizzes[i], now)])

\* Mutant of quizzesAfterCall: the sort reorders the array passed in.
quizzesAfterCallSorted(quizzes, now) ==
    LET sorted == getQuizRecommendations(quizzes, now)
    IN  [k \in 1..Len(quizzes) |->
            quizzes[CHOOSE i \in 1..Len(quizzes) : quizzes[i].id = sorted[k].id]]

\* The array passed to getQuizRecommendations as the call leaves it: map
\* builds a new array of new objects ({...quiz, ...}) and sort reorders that
\* one, so the argument keeps its order and its objects their fields.
quizzesAfterCall(quizzes, now) == quizzes

\* ---------------------------------------------------- calculateLessonStats
\* array.reduce((a, b) => a + b, 0)
RECURSIVE sumOf(_)
sumOf(numbers) ==
    IF numbers = <<>> THEN 0
    ELSE sumOf(SubSeq(numbers, 1, Len(numbers) - 1)) + numbers[Len(numbers)]

\* Mutant of trendOf: a difference of exactly 5 points counts as a change.
trendOfInclusive(scores) ==
    LET n == Len(scores)
        recentN == MathMin(3, n)
        olderN == MathMax(1, n - 3)
        recentSum == sumOf(SubSeq(scores, n - recentN + 1, n))
        olderSum == sumOf(SubSeq(scores, 1, MathMax(0, n - 3)))
    IN  IF n >= 2 /\ recentSum * olderN >= (olderSum + 5 * olderN) * recentN THEN "improving"
        ELSE IF n >= 2 /\ recentSum * olderN <= (olderSum - 5 * olderN) * recentN
        THEN "declining"
        ELSE "neutral"

\* Mutant of trendOf: the trend is computed from one attempt on.
trendOfFromOne(scores) ==
    LET n == Len(scores)
        recentN == MathMin(3, n)
        olderN == MathMax(1, n - 3)
        recentSum == sumOf(SubSeq(scores, n - recentN + 1, n))
        olderSum == sumOf(SubSeq(scores, 1, MathMax(0, n - 3)))
    IN  IF n >= 1 /\ recentSum * olderN > (olderSum + 5 * olderN) * recentN THEN "improving"
        ELSE IF n >= 1 /\ recentSum * olderN < (olderSum - 5 * olderN) * recentN
        THEN "declining"
        ELSE "neutral"

\* Mutant of trendOf: the recent sum is always divided by 3.
trendOfDivideByThree(scores) ==
    LET n == Len(scores)
        recentN == 3
        olderN == MathMax(1, n - 3)
        recentSum == sumOf(SubSeq(scores, MathMax(1, n - 2), n))
        olderSum == sumOf(SubSeq(scores, 1, MathMax(0, n - 3)))
    IN  IF n >= 2 /\ recentSum * olderN > (olderSum + 5 * olderN) * recentN THEN "improving"
        ELSE IF n >= 2 /\ recentSum * olderN < (olderSum - 5 * olderN) * recentN
        THEN "declining"
        ELSE "neutral"

\* The trend of calculateLessonStats: recentAvg = sum(scores.slice(-3)) /
\* Math.min(3, n) against olderAvg = sum(scores.slice(0, -3)) /
\* Math.max(1, n - 3), from two attempts on.  The comparisons of the two
\* means are multiplied out by both group sizes.
trendOf(scores) ==
    LET n == Len(scores)
        recentN == MathMin(3, n)
        olderN == MathMax(1, n - 3)
        recentSum == sumOf(SubSeq(scores, n - recentN + 1, n))
        olderSum == sumOf(SubSeq(scores, 1, MathMax(0, n - 3)))
    IN  IF n >= 2 /\ recentSum * olderN > (olderSum + 5 * olderN) * recentN THEN "improving"
        ELSE IF n >= 2 /\ recentSum * olderN < (olderSum - 5 * olderN) * recentN
        THEN "declining"
        ELSE "neutral"

\* calculateLessonStats(lesson) for lesson.quizAttempts, with now the instant
\* its new Date() returns.  averageLearningStrength, rounded by the source to
\* one decimal, is held in tenths of a day; currentRetention in whole percent.
calculateLessonStats(quizAttempts, now) ==
    IF Len(quizAttempts) = 0
    THEN [averageScore |-> 0, attemptCount |-> 0, averageLearningStrength |-> 10 * DefaultS,
          currentRetention |-> 0, trend |-> "neutral"]
    ELSE LET n == Len(quizAttempts)
             scores == [i \in 1..n |-> quizAttempts[i].score]
             trend == trendOf(scores)
             lastAttempt == quizAttempts[n]
             averageLearningStrength == StrengthOrDefault(lastAttempt)
             daysSinceReview == now - lastAttempt.date
             currentRetention == calculateRetention(daysSinceReview, averageLearningStrength)
         IN  [averageScore |-> MathRoundDiv(sumOf(scores), n),
              attemptCount |-> n,
              averageLearningStrength |-> MathRoundDiv(averageLearningStrength, 10),
              currentRetention |-> MathRoundDiv(currentRetention, 100),
              trend |-> trend,
              nextReviewDate |-> calculateNextReviewDate(averageLearningStrength,
                                                         lastAttempt.date)]

\* ------------------------------------------------------------------ state
VARIABLES
    fnArgs,     \* arguments of a direct call of a RetentionAlgorithm function
    fnOut,      \* its result (<<>> before the call)
    rankIn,     \* the quizzes array passed to getQuizRecommendations
    rankNow,    \* the instant new Date() returns in that call
    rankOut,    \* the array it returns (<<>> before the call)
    clock,      \* the server's clock, in ticks
    student,    \* the learner's Student document, or NoDoc
    res,        \* the response of the request handled at this instant, or NoRes
    requests,   \* the MeetingRequest collection, in order of creation
    meetRes,    \* the response of the last meeting-request call, or NoRes
    meetOk,     \* the <<request id, handler>> pairs answered with 200 so far
    conversations, \* the Conversation collection, in order of creation
    messages,   \* the Message collection, in order of creation
    sends,      \* the sendMessage requests in flight, one record per request
    msgRes,     \* the response and emission of the last sendMessage, or NoRes
    sockets,    \* per socket, in order of connection: "open" or "closed"
    rooms,      \* socket id -> the rooms the socket joined with socket.join
    userSockets, \* server.js's userSockets object, as <<userId, socketId>> entries
    openWindows, \* WindowManager.openWindows, in insertion order
    listeners,  \* the number of registered change listeners
    snapshots   \* the arrays passed to the listeners during the last call, in order

fnVars == <<fnArgs, fnOut>>
rankVars == <<rankIn, rankNow, rankOut>>
sysVars == <<clock, student, res>>
meetVars == <<requests, meetRes, meetOk>>
chatVars == <<conversations, messages, sends, msgRes>>
socketVars == <<sockets, rooms, userSockets>>
winVars == <<openWindows, listeners, snapshots>>
appVars == <<meetVars, chatVars, socketVars, winVars>>
vars == <<fnArgs, fnOut, rankIn, rankNow, rankOut, clock, student, res,
          requests, meetRes, meetOk, conversations, messages, sends, msgRes,
          sockets, rooms, userSockets, openWindows, listeners, snapshots>>

NoDoc == [null |-> TRUE]
NoRes == [status |-> 0]
FnIdle == fnArgs = <<>> /\ fnOut = <<>>
RankIdle == rankIn = <<>> /\ rankNow = 0 /\ rankOut = <<>>
SysIdle == clock = 0 /\ student = NoDoc /\ res = NoRes
AppIdle ==
    /\ requests = <<>> /\ meetRes = NoRes /\ meetOk = {}
    /\ conversations = <<>> /\ messages = <<>> /\ sends = <<>> /\ msgRes = NoRes
    /\ sockets = <<>> /\ rooms = <<>> /\ userSockets = <<>>
    /\ openWindows = <<>> /\ listeners = 0 /\ snapshots = <<>>

\* -------------------------------------------- calculateLearningStrength
\* Retentions passed directly: non-positive ones and the values of scoreToRetention.
Retentions == {0 - 20, 0, 20, 45, 60, 75, 85, 95}
Instants == 0..(MaxGap * TicksPerDay)

InitStrength ==
    /\ fnArgs \in Instants \X Instants \X Retentions \X Retentions
    /\ fnOut = <<>>
    /\ RankIdle /\ SysIdle /\ AppIdle

CallStrength ==
    /\ fnOut = <<>>
    /\ fnOut' = <<calculateLearningStrength(fnArgs[1], fnArgs[2], fnArgs[3], fnArgs[4])>>
    /\ UNCHANGED <<fnArgs, rankVars, sysVars, appVars>>

NextStrength == CallStrength

SpecStrength == InitStrength /\ [][NextStrength]_vars

\* C8: calculateLearningStrength returns a value in the closed range [1, 60]
\* (days) for every time gap and every previous / current retention.
C8_StrengthInRange ==
    fnOut # <<>> => (fnOut[1] >= SDays(MinS) /\ fnOut[1] <= SDays(MaxS))

\* C8 witness: a positive gap with the current retention above the previous
\* one (a negative quotient) has been clamped to 1 day.
C8_Witness ==
    /\ fnOut # <<>>
    /\ fnArgs[1] > fnArgs[2] /\ fnArgs[3] > 0 /\ fnArgs[4] > fnArgs[3]
    /\ fnOut[1] = SDays(MinS)

\* C9: the result is exactly the default 5 whenever t - t0 <= 0, or R0 <= 0,
\* or R <= 0, whatever the other arguments are.
C9_DefaultOnGuard ==
    (fnOut # <<>> /\ (fnArgs[1] - fnArgs[2] <= 0 \/ fnArgs[3] <= 0 \/ fnArgs[4] <= 0))
        => fnOut[1] = SDays(DefaultS)

\* C9 witness: a zero gap between two different positive retentions gave 5.
C9_Witness ==
    /\ fnOut = <<SDays(DefaultS)>>
    /\ fnArgs[1] = fnArgs[2] /\ fnArgs[3] > 0 /\ fnArgs[4] > 0 /\ fnArgs[3] # fnArgs[4]

\* ------------------------------------------------------- scoreToRetention
\* Every whole score percentage.
ScoreRange == 0..100

InitScore ==
    /\ \E score \in ScoreRange : fnArgs = <<score>>
    /\ fnOut = <<>>
    /\ RankIdle /\ SysIdle /\ AppIdle

CallScore ==
    /\ fnOut = <<>>
    /\ fnOut' = <<scoreToRetention(fnArgs[1])>>
    /\ UNCHANGED <<fnArgs, rankVars, sysVars, appVars>>

NextScore == CallScore

SpecScore == InitScore /\ [][NextScore]_vars

\* C15: for every integer score 0..100, scoreToRetention returns 95 if
\* score >= 90, 85 if 80..89, 75 if 70..79, 60 if 60..69, 45 if 50..59, and
\* max(20, 0.4 * score) if score < 50, each band including its lower
\* boundary (90, 80, 70, 60, 50 map to 95, 85, 75, 60, 45, and 40 maps to 20).
C15_Bands ==
    fnOut # <<>> =>
        LET score == fnArgs[1]
            r == fnOut[1]
        IN  /\ (score >= 90 => r = 95)
            /\ (score >= 80 /\ score <= 89 => r = 85)
            /\ (score >= 70 /\ score <= 79 => r = 75)
            /\ (score >= 60 /\ score <= 69 => r = 60)
            /\ (score >= 50 /\ score <= 59 => r = 45)
            /\ (score < 50 => 10 * r = (IF 4 * score > 200 THEN 4 * score ELSE 200))
            /\ (score = 40 => r = 20)

\* C15 witness: the lower boundary 80 of a band was mapped to 85.
C15_Witness == fnArgs[1] = 80 /\ fnOut = <<85>>

\* ----------------------------------------------------- calculateRetention
\* Elapsed times in ticks, from a day before the review to MaxDecay days
\* after it, and strengths in hundredths of a day.
DecayInstants == (0 - TicksPerDay)..(MaxDecay * TicksPerDay)
DecayStrengths ==
    {0 - SDays(DefaultS), 0, 1, SDays(MinS), SDays(MinS) + 1, SDays(DefaultS), 2176, SDays(MaxS)}

InitRetention ==
    /\ fnArgs \in DecayInstants \X DecayInstants \X DecayStrengths
    /\ fnOut = <<>>
    /\ RankIdle /\ SysIdle /\ AppIdle

\* calculateRetention at two elapsed times with one S.
CallRetention ==
    /\ fnOut = <<>>
    /\ fnOut' = <<calculateRetention(fnArgs[1], fnArgs[3]),
                  calculateRetention(fnArgs[2], fnArgs[3])>>
    /\ UNCHANGED <<fnArgs, rankVars, sysVars, appVars>>

NextRetention == CallRetention

SpecRetention == InitRetention /\ [][NextRetention]_vars

\* C16: for every fixed S > 0, calculateRetention(t, S) is exactly 100 at
\* t = 0, does not increase as t increases over t >= 0, and stays within
\* [0, 100].
C16_DecayFromFull ==
    (fnOut # <<>> /\ fnArgs[3] > 0) =>
        /\ (fnArgs[1] = 0 => fnOut[1] = 10000)
        /\ (0 <= fnArgs[1] /\ fnArgs[1] <= fnArgs[2] => fnOut[1] >= fnOut[2])
        /\ fnOut[1] >= 0 /\ fnOut[1] <= 10000
        /\ fnOut[2] >= 0 /\ fnOut[2] <= 10000

\* C16 witness: at two positive elapsed times the later retention is
\* strictly lower, and both are strictly between 0 and 100.
C16_Witness ==
    /\ fnOut # <<>> /\ fnArgs[3] > 0
    /\ 0 < fnArgs[1] /\ fnArgs[1] < fnArgs[2]
    /\ 0 < fnOut[2] /\ fnOut[2] < fnOut[1] /\ fnOut[1] < 10000

\* C17: calculateRetention(t, S) is exactly 0 whenever S <= 0, for every t,
\* t = 0 and negative t included.
C17_ZeroWithoutStrength ==
    (fnOut # <<>> /\ fnArgs[3] <= 0) => fnOut = <<0, 0>>

\* C17 witness: a negative S gave 0 at a positive and at a negative elapsed time.
C17_Witness ==
    fnOut = <<0, 0>> /\ fnArgs[3] < 0 /\ fnArgs[1] > 0 /\ fnArgs[2] < 0

\* ------------------------------------------------- updateLearningStrength
\* The scores of the new attempt and of the last attempt of the history.
UpdateScores == {0, 40, 49, 50, 60, 89, 90, 95, 100}
LastScores == {40, 60, 90}
\* The instant of the call: the instant of the last attempt (a zero gap), a
\* tick later, and ten days later.
UpdateNows == {0, 1, 10 * TicksPerDay}

\* Attempts of a history.  updateLearningStrength accepts any array of
\* attempts, so the S and the retention stored on them are drawn freely.
LastAttempts ==
    {[date |-> 0, score |-> sc, S |-> st, retention |-> r] :
        sc \in LastScores, st \in {SDays(MinS), SDays(MaxS)}, r \in {20, 95}}
EarlierAttempts ==
    {[date |-> 0, score |-> 100, S |-> SDays(MinS), retention |-> 95],
     [date |-> 0, score |-> 0, S |-> SDays(MaxS), retention |-> 20]}
Histories ==
    {<<>>} \cup {<<l>> : l \in LastAttempts}
           \cup {<<e, l>> : e \in EarlierAttempts, l \in LastAttempts}

InitUpdate ==
    /\ fnArgs \in Histories \X UpdateScores \X UpdateNows
    /\ fnOut = <<>>
    /\ RankIdle /\ SysIdle /\ AppIdle

\* The two calls by which submitQuizAttemptWithRetention schedules an attempt:
\* updateLearningStrength, then calculateNextReviewDays of its S.
CallUpdate ==
    /\ fnOut = <<>>
    /\ LET retentionData == updateLearningStrength(fnArgs[1], fnArgs[2], fnArgs[3])
       IN  fnOut' = <<retentionData,
                      calculateNextReviewDays(retentionData.S, DefaultThreshold)>>
    /\ UNCHANGED <<fnArgs, rankVars, sysVars, appVars>>

NextUpdate == CallUpdate

SpecUpdate == InitUpdate /\ [][NextUpdate]_vars

\* C11: with an empty attempt history the result is S = 5 and retention =
\* scoreToRetention(currentScore) for every score, the strength formula is
\* not used, and the schedule is calculateNextReviewDays(5) = 5 days (score 95
\* gives S = 5, retention 95, next review 5 days later).
C11_FirstAttempt ==
    (fnOut # <<>> /\ fnArgs[1] = <<>>) =>
        /\ fnOut[1].S = SDays(5)
        /\ fnOut[1].retention = scoreToRetention(fnArgs[2])
        /\ "previousRetention" \notin DOMAIN fnOut[1]
        /\ "timeSinceLastReview" \notin DOMAIN fnOut[1]
        /\ fnOut[2] = 5
        /\ (fnArgs[2] = 95 => fnOut[1].retention = 95)

\* C11 witness: score 95 on a first attempt gave S = 5, retention 95 and a
\* review 5 days later.
C11_Witness ==
    /\ fnOut # <<>> /\ fnArgs[1] = <<>> /\ fnArgs[2] = 95
    /\ fnOut[1].S = SDays(5) /\ fnOut[1].retention = 95 /\ fnOut[2] = 5

\* The gap, the two retentions and the divisor of a repeat attempt, from the
\* last attempt of the history and the new score alone.
LastOfHistory == fnArgs[1][Len(fnArgs[1])]
GapTicks == fnArgs[3] - LastOfHistory.date
PreviousRetention == scoreToRetention(LastOfHistory.score)
CurrentRetention == scoreToRetention(fnArgs[2])
LnRatioE4 == MathLogE4(PreviousRetention) - MathLogE4(CurrentRetention)
\* S (hundredths of a day) is clamp(gap / ln(previous / current), 1, 60):
\* the quotient in days is GapTicks * 10000 / (TicksPerDay * LnRatioE4).
ClampOfQuotient(S) ==
    /\ S >= SDays(1) /\ S <= SDays(60)
    /\ IF LnRatioE4 > 0
       THEN /\ (S = SDays(1) \/ S * TicksPerDay * LnRatioE4 <= GapTicks * 1000000)
            /\ (S = SDays(60) \/ (S + 1) * TicksPerDay * LnRatioE4 > GapTicks * 1000000)
       ELSE IF LnRatioE4 = 0 THEN (GapTicks > 0 => S = SDays(60))
       ELSE (GapTicks >= 0 => S = SDays(1))
\* What the result of a repeat attempt reads, and the scores 90 then 60 ten
\* days apart.
ReadsLastAttemptOnly ==
    /\ fnOut[1].timeSinceLastReview = GapTicks
    /\ fnOut[1].previousRetention = PreviousRetention
    /\ fnOut[1].retention = CurrentRetention
    /\ (GapTicks = 10 * TicksPerDay /\ LastOfHistory.score = 90 /\ fnArgs[2] = 60)
           => /\ PreviousRetention = 95 /\ CurrentRetention = 60
              /\ fnOut[1].S > SDays(21) /\ fnOut[1].S < SDays(22)

\* C12 (as stated): with a non-empty history the result depends only on the
\* last attempt and the new score (gap = now - last date, previousRetention
\* and currentRetention mapped from the two scores), and S is
\* clamp(gap / ln(previousRetention / currentRetention), 1, 60).
C12_ClampedQuotient ==
    (fnOut # <<>> /\ fnArgs[1] # <<>>) =>
        (ReadsLastAttemptOnly /\ ClampOfQuotient(fnOut[1].S))

\* C12 (amended): with a non-empty history the result depends only on the
\* last attempt and the new score; S is clamp(gap / ln(previousRetention /
\* currentRetention), 1, 60) when the gap is positive and the default 5 when
\* the gap is zero or negative; scores 90 then 60 ten days apart give 95, 60
\* and S strictly between 21 and 22.
C12_LastAttemptOnly ==
    (fnOut # <<>> /\ fnArgs[1] # <<>>) =>
        /\ ReadsLastAttemptOnly
        /\ IF GapTicks > 0 THEN ClampOfQuotient(fnOut[1].S) ELSE fnOut[1].S = SDays(5)

\* C12 witness: scores 90 then 60 ten days apart, after an earlier attempt
\* and with another retention stored on the last attempt, gave an S between
\* 21 and 22.
C12_Witness ==
    /\ fnOut # <<>> /\ Len(fnArgs[1]) = 2
    /\ GapTicks = 10 * TicksPerDay /\ LastOfHistory.score = 90 /\ fnArgs[2] = 60
    /\ LastOfHistory.retention # 95
    /\ fnOut[1].S > SDays(21) /\ fnOut[1].S < SDays(22)

\* ------------------------------------------------ calculateNextReviewDays
\* Strengths passed directly, in hundredths of a day: negative, zero, a
\* hundredth of a day, the two around the half day that rounds to 0 or 1 at
\* threshold 40, and the range of stored strengths and beyond.
Strengths ==
    {0 - SDays(DefaultS), 0, 1, 54, 55, SDays(MinS), SDays(DefaultS), 2176, SDays(MaxS),
     SDays(200)}
\* Thresholds in percent: non-positive, the default, and up to above 100.
Thresholds == {0 - 10, 0, 1, 10, DefaultThreshold, 90, 100, 150}

InitDays ==
    /\ fnArgs \in Strengths \X Thresholds
    /\ fnOut = <<>>
    /\ RankIdle /\ SysIdle /\ AppIdle

CallDays ==
    /\ fnOut = <<>>
    /\ fnOut' = <<calculateNextReviewDays(fnArgs[1], fnArgs[2])>>
    /\ UNCHANGED <<fnArgs, rankVars, sysVars, appVars>>

NextDays == CallDays

SpecDays == InitDays /\ [][NextDays]_vars

\* C13: calculateNextReviewDays(S, threshold) returns an integer that is at
\* least 1 for every S (S <= 0 and very small positive S included) and every
\* threshold, and exactly 1 whenever threshold <= 0.
C13_AtLeastOneDay ==
    fnOut # <<>> =>
        /\ fnOut[1] \in Nat /\ fnOut[1] >= 1
        /\ (fnArgs[2] <= 0 => fnOut[1] = 1)

\* C13 witness: a negative S at the default threshold, whose rounded product
\* is negative, gave 1.
C13_Witness ==
    /\ fnOut = <<1>>
    /\ fnArgs[1] < 0 /\ fnArgs[2] = DefaultThreshold

\* C25: with a positive gap (and the positive retentions of
\* scoreToRetention) the strength is exactly 60 when the current retention
\* equals the previous one and exactly 1 when it is greater; so a repeat
\* attempt whose score falls in a higher band than the last one gets S = 1
\* and a review 1 day later, whatever the gap.
C25_EqualOrRisenRetention ==
    (fnOut # <<>> /\ fnArgs[1] # <<>> /\ GapTicks > 0) =>
        /\ (CurrentRetention = PreviousRetention => fnOut[1].S = SDays(60))
        /\ (CurrentRetention > PreviousRetention => (fnOut[1].S = SDays(1) /\ fnOut[2] = 1))

\* C25 witness: score 90 ten days after score 40 gave S = 1 and a review
\* after 1 day.
C25_Witness ==
    /\ fnOut # <<>> /\ fnArgs[1] # <<>>
    /\ GapTicks = 10 * TicksPerDay /\ LastOfHistory.score = 40 /\ fnArgs[2] = 90
    /\ fnOut[1].S = SDays(1) /\ fnOut[2] = 1

\* ------------------------------------------- getQuizRecommendations alone
\* The instants of the call, and the dates of the last attempts around them.
RankNows == {2 * TicksPerDay + 1, 2 * TicksPerDay + 2}
ReviewDates ==
    {2 * TicksPerDay + 1 + d :
        d \in {0 - (TicksPerDay + 1), 0 - 1, 0, 1, TicksPerDay, TicksPerDay + 1, TicksPerDay + 2}}
RankScores == {LowScore - 1, LowScore}

\* A last attempt as the function reads it (date, nextReviewDate, score, S) ...
ContractAttempts ==
    {[date |-> 0, nextReviewDate |-> n, score |-> sc, S |-> SDays(DefaultS)] :
        n \in ReviewDates, sc \in RankScores}

\* ... and as submitQuizAttemptWithRetention stores it: the date is under
\* nextReview, and there is no nextReviewDate.
StoredAttempts ==
    {[date |-> 0, nextReview |-> n, score |-> sc, S |-> SDays(DefaultS)] :
        n \in {2 * TicksPerDay + 1 - 1, 2 * TicksPerDay + 1 + TicksPerDay + 1}, sc \in RankScores}

\* The arrays passed: every last attempt of one array has the same shape,
\* since one code path builds them all.
RankInputs ==
    UNION {UNION {[1..n -> A \cup {Null}] : n \in 1..MaxQuizzes} :
               A \in {ContractAttempts, StoredAttempts}}

InitRank ==
    /\ \E la \in RankInputs : rankIn = [i \in DOMAIN la |-> [id |-> i, lastAttempt |-> la[i]]]
    /\ rankNow \in RankNows
    /\ rankOut = <<>>
    /\ FnIdle /\ SysIdle /\ AppIdle

CallRank ==
    /\ rankOut = <<>>
    /\ rankOut' = getQuizRecommendations(rankIn, rankNow)
    /\ rankIn' = quizzesAfterCall(rankIn, rankNow)
    /\ UNCHANGED <<fnVars, rankNow, sysVars, appVars>>

\* The call of another request with the same array at the same instant,
\* before or after the first; its result is kept in fnOut.
CallRankOther ==
    /\ fnOut = <<>>
    /\ fnOut' = <<getQuizRecommendations(rankIn, rankNow)>>
    /\ rankIn' = quizzesAfterCall(rankIn, rankNow)
    /\ UNCHANGED <<fnArgs, rankNow, rankOut, sysVars, appVars>>

NextRank == CallRank \/ CallRankOther

SpecRank == InitRank /\ [][NextRank]_vars

RankDone == rankOut # <<>>
Attempted(r) == ~IsNull(r.lastAttempt)
HasReviewDate(r) == Attempted(r) /\ "nextReviewDate" \in DOMAIN r.lastAttempt
\* (nextReviewDate - now) in ticks, for a result whose last attempt has the date.
SignedTicks(r) == r.lastAttempt.nextReviewDate - rankNow
\* The place of quiz id in the returned array.
PlaceOf(id) == CHOOSE k \in 1..Len(rankOut) : rankOut[k].id = id

\* C1: for a quiz with a last attempt, priority and reason are set by the
\* first match of: due (daysUntilDue <= 0) -> high / 'Overdue by N days' with
\* N = round(abs(daysUntilDue)); daysUntilDue <= 1 -> medium / 'Due soon';
\* score < 70 -> high / 'Low score - needs reinforcement'; else low /
\* 'Review upcoming'.
C1_FirstMatch ==
    RankDone => \A k \in 1..Len(rankOut) :
        LET r == rankOut[k]
            dated == HasReviewDate(r)
        IN  Attempted(r) =>
              /\ (r.isDue => r.priority = "high")
              /\ IF dated /\ SignedTicks(r) <= 0
                 THEN /\ r.priority = "high"
                      /\ r.reason.text = "Overdue by N days"
                      /\ 2 * TicksPerDay * r.reason.N - TicksPerDay <= 2 * (0 - SignedTicks(r))
                      /\ 2 * (0 - SignedTicks(r)) < 2 * TicksPerDay * r.reason.N + TicksPerDay
                 ELSE IF dated /\ SignedTicks(r) <= TicksPerDay
                 THEN r.priority = "medium" /\ r.reason = [text |-> "Due soon"]
                 ELSE IF r.lastAttempt.score < 70
                 THEN /\ r.priority = "high"
                      /\ r.reason = [text |-> "Low score - needs reinforcement"]
                 ELSE r.priority = "low" /\ r.reason = [text |-> "Review upcoming"]

\* C1 witness: a quiz due within a day with a score below 70 came out
\* medium / 'Due soon', and another came out overdue by a rounded-up half day.
C1_Witness ==
    /\ RankDone
    /\ \E k \in 1..Len(rankOut) :
          /\ HasReviewDate(rankOut[k]) /\ SignedTicks(rankOut[k]) > 0
          /\ rankOut[k].lastAttempt.score < 70 /\ rankOut[k].priority = "medium"
    /\ \E k \in 1..Len(rankOut) :
          /\ HasReviewDate(rankOut[k]) /\ SignedTicks(rankOut[k]) = 0 - 1
          /\ rankOut[k].reason = [text |-> "Overdue by N days", N |-> 1]

\* C2 (as stated): of two overdue quizzes the more overdue one comes first
\* in the output, whatever their order in the input.
C2_MoreOverdueFirst ==
    RankDone => \A i, j \in 1..Len(rankIn) :
        (/\ Attempted(rankIn[i]) /\ Attempted(rankIn[j])
         /\ HasReviewDate(rankIn[i]) /\ HasReviewDate(rankIn[j])
         /\ rankIn[i].lastAttempt.nextReviewDate < rankIn[j].lastAttempt.nextReviewDate
         /\ rankIn[j].lastAttempt.nextReviewDate < rankNow)
            => PlaceOf(i) < PlaceOf(j)

\* C3: a quiz with no attempt history gets priority high, reason 'New quiz -
\* never attempted', daysUntilDue 0 and isDue true, whatever the instant of
\* the call and the other quizzes.
C3_NeverAttempted ==
    RankDone => \A k \in 1..Len(rankOut) :
        IsNull(rankOut[k].lastAttempt) =>
            /\ rankOut[k].priority = "high"
            /\ rankOut[k].reason = [text |-> "New quiz - never attempted"]
            /\ rankOut[k].daysUntilDue = Num(0)
            /\ rankOut[k].isDue = TRUE

\* C3 witness: a never-attempted quiz was ranked together with an attempted one.
C3_Witness ==
    /\ RankDone
    /\ \E k, m \in 1..Len(rankOut) :
          IsNull(rankOut[k].lastAttempt) /\ Attempted(rankOut[m]) /\ rankOut[k].isDue

\* The sort key of a result: the priority rank, then the reported daysUntilDue.
KeyBefore(a, b) ==
    \/ priorityOrder(a.priority) < priorityOrder(b.priority)
    \/ /\ a.priority = b.priority
       /\ ~IsNaN(a.daysUntilDue) /\ ~IsNaN(b.daysUntilDue)
       /\ a.daysUntilDue[1] < b.daysUntilDue[1]

\* C5: the returned list is a permutation of the input (same length, each
\* quiz once), never decreasing in the key (priority rank, reported
\* daysUntilDue), and results with equal keys keep their input order.
C5_StableSortedPermutation ==
    RankDone =>
        /\ Len(rankOut) = Len(rankIn)
        /\ \A i \in 1..Len(rankIn) :
              Cardinality({k \in 1..Len(rankOut) : rankOut[k].id = i}) = 1
        /\ \A k \in 1..Len(rankOut) : rankOut[k].lastAttempt = rankIn[rankOut[k].id].lastAttempt
        /\ \A k, m \in 1..Len(rankOut) :
              k < m => /\ ~KeyBefore(rankOut[m], rankOut[k])
                       /\ (~KeyBefore(rankOut[k], rankOut[m]) => rankOut[k].id < rankOut[m].id)

\* C5 witness: three quizzes came out in an order other than the input's,
\* two of them with the same key.
C5_Witness ==
    /\ RankDone /\ Len(rankOut) >= 3
    /\ \E k \in 1..(Len(rankOut) - 1) : rankOut[k].id > rankOut[k + 1].id
    /\ \E k \in 1..(Len(rankOut) - 1) :
          /\ rankOut[k].priority = rankOut[k + 1].priority
          /\ rankOut[k].daysUntilDue = rankOut[k + 1].daysUntilDue

Quizzes ==
    <<[id |-> 1, chapter |-> 1, questions |-> 1], [id |-> 2, chapter |-> 2, questions |-> 2]>>
QuizIds == {Quizzes[i].id : i \in DOMAIN Quizzes}
\* Quiz.findById(id)
QuizById(id) == Quizzes[CHOOSE i \in DOMAIN Quizzes : Quizzes[i].id = id]
\* req.params.id: the quizzes and an id of no quiz.
RequestQuizIds == QuizIds \cup {0}

\* req.user.id: the learner (role student), a teacher, and an id of no user.
Users == {"student", "teacher", "nobody"}

\* req.body.answers: absent, or one entry per answer; an entry says whether
\* it equals the question's correctAnswer.  The handler only counts the
\* right answers, so the lists drawn have them first.
NoAnswers == [undefined |-> TRUE]
RequestAnswers ==
    {NoAnswers} \cup {[list |-> [i \in 1..n |-> i <= c]] : n \in 0..2, c \in 0..2}

\* array.filter(pred) for the attempts of one quiz
RECURSIVE attemptsOfQuiz(_, _)
attemptsOfQuiz(attempts, quizId) ==
    IF attempts = <<>> THEN <<>>
    ELSE LET head == attemptsOfQuiz(SubSeq(attempts, 1, Len(attempts) - 1), quizId)
             last == attempts[Len(attempts)]
         IN  IF last.quiz = quizId THEN Append(head, last) ELSE head

\* Math.round((correctCount / total) * 100)
scorePercentageOf(correctCount, total) == MathRoundDiv(correctCount * 100, total)

\* The attempt object pushed by submitQuizAttemptWithRetention.  The handler
\* reads the clock three times: in updateLearningStrength (t1), as the
\* default lastReviewDate of calculateNextReviewDate (t2) and for date (t3).
newAttempt(previousAttempts, quizId, correctCount, total, t1, t2, t3) ==
    LET scorePercentage == scorePercentageOf(correctCount, total)
        retentionData == updateLearningStrength(previousAttempts, scorePercentage, t1)
        nextReviewDate == calculateNextReviewDate(retentionData.S, t2)
    IN  [quiz |-> quizId,
         date |-> t3,
         score |-> scorePercentage,
         correct |-> correctCount,
         total |-> total,
         nextReview |-> nextReviewDate,
         S |-> retentionData.S,
         retention |-> retentionData.retention,
         timeSinceLastReview |->
             IF "timeSinceLastReview" \in DOMAIN retentionData
             THEN retentionData.timeSinceLastReview ELSE 0]

\* Mutant of pushAttempt: the attempt goes to the front of the array.
pushAttemptFront(quizAttempts, attempt) == <<attempt>> \o quizAttempts

\* student.quizAttempts.push(attempt)
pushAttempt(quizAttempts, attempt) == Append(quizAttempts, attempt)

\* The clock's ticks between the handler's three readings of it: the
\* synchronous stretch from the first reading to the last is far shorter
\* than a tick, so the clock ticks at most once in it.
ClockSkews == {<<0, 0>>, <<1, 0>>, <<0, 1>>}

\* submitQuizAttemptWithRetention(req, res) as one step: user, quizId and
\* answers are the request.  The server handles a request once the response
\* of the one before it has gone out.  The per-question results of the response are
\* left out.
SubmitQuizAttemptWithRetention(user, quizId, answers) ==
    /\ res = NoRes
    /\ IF quizId \notin QuizIds
       THEN /\ res' = [status |-> 404, message |-> "Quiz not found"]
            /\ UNCHANGED <<clock, student>>
       ELSE IF "undefined" \in DOMAIN answers \/ Len(answers.list) # QuizById(quizId).questions
       THEN /\ res' = [status |-> 400, message |-> "Invalid submission"]
            /\ UNCHANGED <<clock, student>>
       ELSE IF user = "nobody"
       THEN /\ res' = [status |-> 404, message |-> "User not found"]
            /\ UNCHANGED <<clock, student>>
       ELSE IF user # "student"
       THEN /\ res' = [status |-> 403, message |-> "Only students can submit quizzes"]
            /\ UNCHANGED <<clock, student>>
       ELSE \E k \in ClockSkews :
            LET total == QuizById(quizId).questions
                correctCount == Cardinality({i \in 1..total : answers.list[i]})
                quizAttempts == IF IsNull(student) THEN <<>> ELSE student.quizAttempts
                previousAttempts == attemptsOfQuiz(quizAttempts, quizId)
                attempt == newAttempt(previousAttempts, quizId, correctCount, total,
                                      clock, clock + k[1], clock + k[1] + k[2])
            IN  /\ Len(quizAttempts) < MaxAttempts
                /\ clock + k[1] + k[2] <= MaxClock * TicksPerDay
                /\ student' = [quizAttempts |-> pushAttempt(quizAttempts, attempt)]
                /\ clock' = clock + k[1] + k[2]
                /\ res' = [status |-> 200,
                           score |-> attempt.score,
                           correct |-> correctCount,
                           total |-> total,
                           retentionData |->
                               [S |-> attempt.S,
                                retention |-> attempt.retention,
                                nextReviewDate |-> attempt.nextReview,
                                daysUntilReview |->
                                    calculateNextReviewDays(attempt.S, DefaultThreshold)]]
    /\ UNCHANGED <<fnVars, rankVars, appVars>>

\* quizzes.map(...) of getRecommendedQuizzes: each quiz with the learner's
\* attempts of it and the last of them (or null).
quizzesWithHistory(quizAttempts) ==
    [i \in DOMAIN Quizzes |->
        LET attempts == attemptsOfQuiz(quizAttempts, Quizzes[i].id)
        IN  [attempts |-> attempts,
             lastAttempt |-> IF Len(attempts) > 0 THEN attempts[Len(attempts)] ELSE Null]
            @@ Quizzes[i]]

\* getRecommendedQuizzes(req, res) as one step.
GetRecommendedQuizzes(user) ==
    /\ res = NoRes
    /\ IF user # "student" \/ IsNull(student)
       THEN res' = [status |-> 404, message |-> "Student not found"]
       ELSE LET recommendations ==
                    getQuizRecommendations(quizzesWithHistory(student.quizAttempts), clock)
            IN  res' = [status |-> 200,
                        recommendations |-> SubSeq(recommendations, 1,
                                                   MathMin(10, Len(recommendations))),
                        totalAvailable |-> Len(recommendations),
                        dueCount |-> Cardinality({k \in 1..Len(recommendations) :
                                                     recommendations[k].isDue})]
    /\ UNCHANGED <<clock, student, fnVars, rankVars, appVars>>

\* array.filter(pred) for the attempts of the quizzes of one chapter, the
\* quiz of each attempt populated
RECURSIVE attemptsOfLesson(_, _)
attemptsOfLesson(attempts, lessonId) ==
    IF attempts = <<>> THEN <<>>
    ELSE LET head == attemptsOfLesson(SubSeq(attempts, 1, Len(attempts) - 1), lessonId)
             last == attempts[Len(attempts)]
         IN  IF QuizById(last.quiz).chapter = lessonId THEN Append(head, last) ELSE head

\* req.params.lessonId: the chapters of the quizzes.
LessonIds == {Quizzes[i].chapter : i \in DOMAIN Quizzes}

\* getLessonStats(req, res) as one step.
GetLessonStats(user, lessonId) ==
    /\ res = NoRes
    /\ IF user # "student" \/ IsNull(student)
       THEN res' = [status |-> 404, message |-> "Student not found"]
       ELSE LET lessonAttempts == attemptsOfLesson(student.quizAttempts, lessonId)
            IN  IF Len(lessonAttempts) = 0
                THEN res' = [status |-> 200, lessonId |-> lessonId,
                             stats |-> [averageScore |-> 0, attemptCount |-> 0,
                                        averageLearningStrength |-> 10 * DefaultS,
                                        currentRetention |-> 0, trend |-> "neutral"],
                             attempts |-> <<>>]
                ELSE res' = [status |-> 200, lessonId |-> lessonId,
                             stats |-> calculateLessonStats(lessonAttempts, clock),
                             attempts |->
                                 [i \in 1..Len(lessonAttempts) |->
                                     [date |-> lessonAttempts[i].date,
                                      score |-> lessonAttempts[i].score,
                                      S |-> lessonAttempts[i].S,
                                      retention |-> lessonAttempts[i].retention,
                                      nextReview |-> lessonAttempts[i].nextReview]]]
    /\ UNCHANGED <<clock, student, fnVars, rankVars, appVars>>

\* Mutant of retentionCurve: isDue is taken from the rounded retention.
retentionCurveRoundedDue(S) ==
    [i \in 1..(MaxCurveDay + 1) |->
        LET t == i - 1
            retention == calculateRetention(t * TicksPerDay, S)
        IN  [day |-> t, retention |-> MathRoundDiv(retention, 100),
             isDue |-> MathRoundDiv(retention, 100) <= 40]]

\* The loop of getRetentionCurve: a point for each day t = 0..30, the
\* retention rounded to whole percent.
retentionCurve(S) ==
    [i \in 1..(MaxCurveDay + 1) |->
        LET t == i - 1
            retention == calculateRetention(t * TicksPerDay, S)
        IN  [day |-> t, retention |-> MathRoundDiv(retention, 100),
             isDue |-> retention <= 40 * 100]]

\* The response of getRetentionCurve for the learner's attempts of the quiz.
curveResponse(attempts, quizId) ==
    IF Len(attempts) = 0
    THEN [status |-> 200, quizId |-> quizId, curve |-> <<>>,
          message |-> "No attempts found for this quiz"]
    ELSE LET lastAttempt == attempts[Len(attempts)]
             S == StrengthOrDefault(lastAttempt)
         IN  [status |-> 200, quizId |-> quizId, S |-> S,
              lastAttemptDate |-> lastAttempt.date,
              curve |-> retentionCurve(S),
              nextReviewDate |-> lastAttempt.nextReview,
              daysUntilReview |-> calculateNextReviewDays(S, DefaultThreshold)]

\* getRetentionCurve(req, res) as one step.
GetRetentionCurve(user, quizId) ==
    /\ res = NoRes
    /\ IF user # "student" \/ IsNull(student)
       THEN res' = [status |-> 404, message |-> "Student not found"]
       ELSE res' = curveResponse(attemptsOfQuiz(student.quizAttempts, quizId), quizId)
    /\ UNCHANGED <<clock, student, fnVars, rankVars, appVars>>

\* .sort((a, b) => new Date(b.date) - new Date(a.date)): latest first, equal
\* dates in their stored order.
RECURSIVE insertByDate(_, _)
insertByDate(sorted, x) ==
    IF sorted = <<>> THEN <<x>>
    ELSE IF x.date - sorted[Len(sorted)].date <= 0 THEN Append(sorted, x)
    ELSE Append(insertByDate(SubSeq(sorted, 1, Len(sorted) - 1), x), sorted[Len(sorted)])

RECURSIVE sortByDate(_)
sortByDate(attempts) ==
    IF attempts = <<>> THEN <<>>
    ELSE insertByDate(sortByDate(SubSeq(attempts, 1, Len(attempts) - 1)),
                      attempts[Len(attempts)])

\* req.query of getQuizAttempts: limit and offset are the numbers 20 and 0
\* when absent, and strings of digits when given (held as their values).
Queries ==
    {[offset |-> 0, limit |-> DefaultLimit, strings |-> FALSE],
     [offset |-> 1, limit |-> DefaultLimit, strings |-> TRUE],
     [offset |-> 0, limit |-> 1, strings |-> TRUE]}

\* offset + limit: the sum of two numbers, and the concatenation of the
\* digits when either is a string.
offsetPlusLimit(query) ==
    IF query.strings
    THEN query.offset * (IF query.limit < 10 THEN 10 ELSE 100) + query.limit
    ELSE query.offset + query.limit

\* Math.ceil(n / d) for d > 0
MathCeilDiv(n, d) == 0 - ((0 - n) \div d)

\* getQuizAttempts(req, res) as one step.  The sort reorders the array of the
\* loaded document, which the handler does not save.
GetQuizAttempts(user, query) ==
    /\ res = NoRes
    /\ IF user # "student" \/ IsNull(student)
       THEN res' = [status |-> 404, message |-> "Student not found"]
       ELSE LET sorted == sortByDate(student.quizAttempts)
                attempts == SubSeq(sorted, query.offset + 1,
                                   MathMin(offsetPlusLimit(query), Len(sorted)))
            IN  res' = [status |-> 200,
                        attempts |->
                            [i \in 1..Len(attempts) |->
                                [quizId |-> attempts[i].quiz,
                                 date |-> attempts[i].date,
                                 score |-> attempts[i].score,
                                 correct |-> attempts[i].correct,
                                 total |-> attempts[i].total,
                                 S |-> attempts[i].S,
                                 retention |-> attempts[i].retention,
                                 nextReview |-> attempts[i].nextReview,
                                 daysUntilReview |->
                                     MathCeilDiv(attempts[i].nextReview - clock,
                                                 TicksPerDay)]],
                        total |-> Len(sorted)]
    /\ UNCHANGED <<clock, student, fnVars, rankVars, appVars>>

\* res.status(...).json(...): the response goes out to the client.
SendResponse ==
    /\ res # NoRes
    /\ res' = NoRes
    /\ UNCHANGED <<clock, student, fnVars, rankVars, appVars>>

\* Time passes between requests, by the days of the first review interval.
\* The response of the last request has been sent.
Tick(d) ==
    /\ clock + d <= MaxClock * TicksPerDay
    /\ clock' = clock + d
    /\ res' = NoRes
    /\ UNCHANGED <<student, fnVars, rankVars, appVars>>

TickSteps == {calculateNextReviewDays(SDays(DefaultS), DefaultThreshold) * TicksPerDay}

\* the state at start: nothing called, no document stored, nothing connected
Init == FnIdle /\ RankIdle /\ SysIdle /\ AppIdle

Next ==
    \/ \E user \in Users, quizId \in RequestQuizIds, answers \in RequestAnswers :
          SubmitQuizAttemptWithRetention(user, quizId, answers)
    \/ \E user \in Users : GetRecommendedQuizzes(user)
    \/ \E user \in Users, lessonId \in LessonIds : GetLessonStats(user, lessonId)
    \/ \E user \in Users, quizId \in RequestQuizIds : GetRetentionCurve(user, quizId)
    \/ \E user \in Users, query \in Queries : GetQuizAttempts(user, query)
    \/ SendResponse
    \/ \E d \in TickSteps : Tick(d)

Spec == Init /\ [][Next]_vars

\* The response of getRecommendedQuizzes with a list in it.
Recommended == res.status = 200 /\ "recommendations" \in DOMAIN res
\* The attempts stored in the learner's history.
History == IF IsNull(student) THEN <<>> ELSE student.quizAttempts

\* C4 (as stated): in the returned list every never-attempted quiz comes
\* before every attempted quiz whose result has isDue = false.
C4_NewBeforeNotDue ==
    Recommended => \A k, m \in 1..Len(res.recommendations) :
        (/\ IsNull(res.recommendations[k].lastAttempt)
         /\ Attempted(res.recommendations[m])
         /\ ~res.recommendations[m].isDue)
            => k < m

\* C7 (as stated): the next-review date stored by a submission is the one
\* the ranker consumes: a getRecommendedQuizzes call at or after the date
\* stored on the quiz's latest attempt reports isDue = true and priority
\* high, and a call more than one day before it reports isDue = false.
C7_StoredDateConsumed ==
    Recommended => \A k \in 1..Len(res.recommendations) :
        LET r == res.recommendations[k]
        IN  Attempted(r) =>
              /\ (clock >= r.lastAttempt.nextReview => (r.isDue /\ r.priority = "high"))
              /\ (clock + TicksPerDay < r.lastAttempt.nextReview => ~r.isDue)

\* C10: every attempt stored in the learner's history has 1 <= S <= 60
\* (days), retention in [0, 100] and score in [0, 100].
C10_StoredAttemptRanges ==
    \A k \in 1..Len(History) :
        /\ History[k].S >= SDays(MinS) /\ History[k].S <= SDays(MaxS)
        /\ History[k].retention >= 0 /\ History[k].retention <= 100
        /\ History[k].score >= 0 /\ History[k].score <= 100

\* C10 witness: a repeat submission some days after the first was stored
\* with a strength the formula gave: strictly inside the clamp and not the
\* default.
C10_Witness ==
    \E k \in 2..Len(History) :
        /\ History[k].quiz = History[1].quiz
        /\ History[k].timeSinceLastReview > 0
        /\ History[k].S > SDays(MinS) /\ History[k].S < SDays(MaxS)
        /\ History[k].S # SDays(DefaultS)

\* C14 (as stated): for every attempt recorded by
\* submitQuizAttemptWithRetention the stored next-review date is the stored
\* attempt date plus exactly calculateNextReviewDays(stored S) days, also
\* when the clock advances between the steps of handling the submission.
C14_ReviewDateFromAttemptDate ==
    \A k \in 1..Len(History) :
        History[k].nextReview =
            History[k].date + calculateNextReviewDays(History[k].S, 40) * TicksPerDay

\* The retention of an attempted result is the live one: calculateRetention
\* of the time since the last attempt's date and of the last attempt's S, at
\* the instant of the call; 100 when the call is at the attempt's instant.
LiveRetention(r) ==
    /\ "retention" \in DOMAIN r
    /\ r.retention >= 0 /\ r.retention <= 10000
    /\ r.retention = calculateRetention(clock - r.lastAttempt.date, r.lastAttempt.S)
    /\ (clock = r.lastAttempt.date => r.retention = 10000)
    /\ (clock > r.lastAttempt.date => r.retention < 10000)

\* C18 (as stated): every element of the returned list, for attempted and
\* never-attempted quizzes alike, carries a retention in [0, 100]; for an
\* attempted quiz it is calculateRetention(days since the last attempt,
\* lastAttempt.S) at call time, not the retention stored on the attempt.
C18_EveryResultHasRetention ==
    Recommended => \A k \in 1..Len(res.recommendations) :
        LET r == res.recommendations[k]
        IN  /\ "retention" \in DOMAIN r
            /\ r.retention >= 0 /\ r.retention <= 10000
            /\ (Attempted(r) => LiveRetention(r))

\* C18 (amended): every element for an attempted quiz carries a retention
\* in [0, 100], which is calculateRetention(days since the last attempt,
\* lastAttempt.S) at call time and not the stored retention; an element for
\* a never-attempted quiz carries no retention.
C18_AttemptedResultHasRetention ==
    Recommended => \A k \in 1..Len(res.recommendations) :
        LET r == res.recommendations[k]
        IN  IF Attempted(r) THEN LiveRetention(r) ELSE "retention" \notin DOMAIN r

\* C18 witness: a list with a never-attempted quiz and with an attempted
\* quiz, called days after the attempt, whose retention is neither 100 nor
\* the stored one.
C18_Witness ==
    /\ Recommended
    /\ \E k \in 1..Len(res.recommendations) : IsNull(res.recommendations[k].lastAttempt)
    /\ \E k \in 1..Len(res.recommendations) :
          LET r == res.recommendations[k]
          IN  /\ Attempted(r) /\ clock > r.lastAttempt.date
              /\ r.retention # 100 * r.lastAttempt.retention
              /\ r.retention > 0 /\ r.retention < 10000

\* The response of an accepted submission.
Accepted == res.status = 200 /\ "retentionData" \in DOMAIN res

\* C19: the stored history changes only by appending: an accepted
\* submission appends exactly one attempt at the end and leaves the earlier
\* ones unchanged; a rejected submission and every read operation
\* (recommendations, lesson stats, retention curve, attempts list) leave the
\* stored history unchanged.
C19_AppendOnly ==
    [][IF Accepted'
       THEN /\ Len(History') = Len(History) + 1
            /\ SubSeq(History', 1, Len(History)) = History
       ELSE History' = History]_vars

\* C19 witness: the attempts list was returned latest first for a history
\* of two attempts, which is stored in the order of submission.
C19_Witness ==
    /\ res.status = 200 /\ "attempts" \in DOMAIN res /\ "total" \in DOMAIN res
    /\ Len(History) = 2 /\ History[1].date < History[2].date
    /\ Len(res.attempts) = 2 /\ res.attempts[1].date = History[2].date

\* ------------------------------------------------ getRetentionCurve alone
\* The last attempt of the quiz: its S a whole number of days from 1 to 60,
\* or a fraction of a day, or 0, or absent.
CurveStrengths == {SDays(d) : d \in MinS..MaxS} \cup {SDays(MinS) + 50, 2176, 0}
CurveAttempts ==
    {[quiz |-> 1, date |-> 0, nextReview |-> TicksPerDay, S |-> st] : st \in CurveStrengths}
        \cup {[quiz |-> 1, date |-> 0, nextReview |-> TicksPerDay]}
CurveHistories ==
    {<<>>} \cup {<<l>> : l \in CurveAttempts}
           \cup {<<[quiz |-> 1, date |-> 0, nextReview |-> TicksPerDay, S |-> SDays(MaxS)], l>> :
                     l \in CurveAttempts}

InitCurve ==
    /\ \E attempts \in CurveHistories : fnArgs = <<attempts>>
    /\ fnOut = <<>>
    /\ RankIdle /\ SysIdle /\ AppIdle

\* The part of getRetentionCurve after the attempts of the quiz are filtered.
CallCurve ==
    /\ fnOut = <<>>
    /\ fnOut' = <<curveResponse(fnArgs[1], 1)>>
    /\ UNCHANGED <<fnArgs, rankVars, sysVars, appVars>>

NextCurve == CallCurve

SpecCurve == InitCurve /\ [][NextCurve]_vars

\* The S the curve is drawn with: the last attempt's, 5 days when it is
\* missing (or 0).
CurveS ==
    LET last == fnArgs[1][Len(fnArgs[1])]
    IN  IF "S" \in DOMAIN last /\ last.S # 0 THEN last.S ELSE SDays(5)

\* C21: for a quiz with at least one attempt the curve has exactly 31
\* points, day = 0, 1, ..., 30 in ascending order, S is the last attempt's S
\* (5 when missing), each retention is round(calculateRetention(day, S)) and
\* isDue is true exactly when calculateRetention(day, S) <= 40; so isDue is
\* false at day 0 and, once true, true at every later day.  With no attempts
\* the curve is empty.
C21_CurvePoints ==
    fnOut # <<>> =>
        IF fnArgs[1] = <<>> THEN fnOut[1].curve = <<>>
        ELSE LET curve == fnOut[1].curve
             IN  /\ Len(curve) = 31
                 /\ fnOut[1].S = CurveS
                 /\ \A i \in 1..31 :
                       LET exact == calculateRetention((i - 1) * TicksPerDay, CurveS)
                       IN  /\ curve[i].day = i - 1
                           /\ 100 * curve[i].retention - 50 <= exact
                           /\ exact < 100 * curve[i].retention + 50
                           /\ curve[i].isDue <=> (exact <= 4000)
                 /\ curve[1].retention = 100 /\ ~curve[1].isDue
                 /\ \A i, j \in 1..31 : (i < j /\ curve[i].isDue) => curve[j].isDue

\* C21 witness: a curve drawn with the S of the last of two attempts has a
\* point whose retention rounds to 40 but is above 40 and not due, and a due
\* point after it.
C21_Witness ==
    /\ fnOut # <<>> /\ Len(fnArgs[1]) = 2
    /\ Len(fnOut[1].curve) = 31 /\ fnOut[1].S # SDays(MaxS)
    /\ \E i \in 1..30 :
          /\ fnOut[1].curve[i].retention = 40 /\ ~fnOut[1].curve[i].isDue
          /\ fnOut[1].curve[i + 1].isDue

\* --------------------------------------------- calculateLessonStats alone
\* The scores of a lesson's attempts: around the 5 points of the trend test,
\* above and below a mean of 50, and the ends of the range.
StatScores == {0, 5, 6, 50, 55, 56, 100}
ScoreLists == UNION {[1..n -> StatScores] : n \in 0..MaxScores}

InitStats ==
    /\ \E scores \in ScoreLists :
          fnArgs = <<[i \in 1..Len(scores) |->
                         [date |-> 0, score |-> scores[i], S |-> SDays(DefaultS)]],
                     TicksPerDay>>
    /\ fnOut = <<>>
    /\ RankIdle /\ SysIdle /\ AppIdle

CallStats ==
    /\ fnOut = <<>>
    /\ fnOut' = <<calculateLessonStats(fnArgs[1], fnArgs[2])>>
    /\ UNCHANGED <<fnArgs, rankVars, sysVars, appVars>>

NextStats == CallStats

SpecStats == InitStats /\ [][NextStats]_vars

\* The scores passed, and the sum of those at places lo..hi.
StatsScores == [i \in 1..Len(fnArgs[1]) |-> fnArgs[1][i].score]
StatsSum(lo, hi) == sumOf(SubSeq(StatsScores, lo, hi))

C23_ShortHistories ==
    fnOut # <<>> =>
        /\ (Len(fnArgs[1]) = 0 =>
               fnOut[1] = [averageScore |-> 0, attemptCount |-> 0,
                           averageLearningStrength |-> 50, currentRetention |-> 0,
                           trend |-> "neutral"])
        /\ (Len(fnArgs[1]) = 1 =>
               (fnOut[1].trend = "neutral" /\ fnOut[1].attemptCount = 1))

\* C23 witness: a single attempt with score 100 came out neutral.
C23_Witness ==
    fnOut # <<>> /\ StatsScores = <<100>> /\ fnOut[1].trend = "neutral"

\* C26: with exactly 2 or 3 attempts the mean of all scores is compared
\* against 0: the trend is 'improving' exactly when the mean is above 5,
\* 'neutral' otherwise, and never 'declining', whatever the order of the
\* scores.
C26_TrendOfTwoOrThree ==
    (fnOut # <<>> /\ Len(fnArgs[1]) \in {2, 3}) =>
        LET n == Len(fnArgs[1])
        IN  /\ (fnOut[1].trend = "improving") <=> (StatsSum(1, n) > 5 * n)
            /\ (fnOut[1].trend = "neutral") <=> (StatsSum(1, n) <= 5 * n)
            /\ fnOut[1].trend # "declining"

\* C26 witness: two attempts with falling scores 100 then 0 came out
\* improving.
C26_Witness ==
    fnOut # <<>> /\ StatsScores = <<100, 0>> /\ fnOut[1].trend = "improving"

\* ---------------------------------- calculateNextReviewDays, then retention
\* Every strength from 1 day to 60 days, in hundredths of a day.
StoredStrengths == SDays(MinS)..SDays(MaxS)

InitRoundTrip ==
    /\ \E S \in StoredStrengths : fnArgs = <<S>>
    /\ fnOut = <<>>
    /\ RankIdle /\ SysIdle /\ AppIdle

\* calculateNextReviewDays(S, 40), then calculateRetention at that day.
CallRoundTrip ==
    /\ fnOut = <<>>
    /\ LET days == calculateNextReviewDays(fnArgs[1], DefaultThreshold)
       IN  fnOut' = <<days, calculateRetention(days * TicksPerDay, fnArgs[1])>>
    /\ UNCHANGED <<fnArgs, rankVars, sysVars, appVars>>

NextRoundTrip == CallRoundTrip

SpecRoundTrip == InitRoundTrip /\ [][NextRoundTrip]_vars

\* Math.exp(-0.5 / S) * 10000 for S in hundredths of a day: the decay over
\* the half day by which rounding can move the scheduled day.
HalfDayDecayE4 == MathExpNegE4(50000 \div fnArgs[1])

\* C24: for every S in [1, 60] the scheduled day calculateNextReviewDays(S, 40)
\* is within 0.5 day of the exact day -S * ln(0.4) = S * 0.9163, and the
\* retention at the scheduled day differs from 40 only by that rounding: it
\* lies between 40 * exp(-0.5 / S) and 40 * exp(0.5 / S), up to 0.2 of a
\* percentage point of table error.
C24_RoundTrip ==
    fnOut # <<>> =>
        /\ 2 * (fnOut[1] * 1000000 - fnArgs[1] * 9163) <= 1000000
        /\ 2 * (fnArgs[1] * 9163 - fnOut[1] * 1000000) < 1000000
        /\ (fnOut[2] + 20) * 10000 >= 4000 * HalfDayDecayE4
        /\ (fnOut[2] - 20) * HalfDayDecayE4 <= 4000 * 10000

\* C24 witness: S = 1.63 days, whose exact day 1.49 is rounded down to 1,
\* where the retention is still above 50.
C24_Witness ==
    fnArgs = <<163>> /\ fnOut # <<>> /\ fnOut[1] = 1 /\ fnOut[2] > 5000


\* ------------------------------------------------ MeetingRequestController
\* The calls of MeetingRequestController.js on the MeetingRequest collection.
\* Each handler reaches the collection through one database operation (save or
\* findOneAndUpdate, which the database applies atomically to one document),
\* and its response depends on that operation's result alone, so concurrent
\* requests are the orders in which the database applies their operations.
Students == {"s1", "s2"}
Teachers == {"t1", "t2"}
MeetUsers == Students \cup Teachers
StatusUpdates == {"accepted", "rejected", "cancelled"}
RequestIds == 1..(MaxRequests + 1)

\* new MeetingRequest({student, teacher, ...}): status takes the schema default
newRequest(studentId, teacherId) ==
    [student |-> studentId, teacher |-> teacherId, status |-> "pending"]

matchesFilterAnyStatus(reqs, requestId, role, userId) ==
    /\ requestId \in DOMAIN reqs
    /\ reqs[requestId][role] = userId

\* the filter { _id: requestId, <role>: userId, status: 'pending' }
matchesFilter(reqs, requestId, role, userId) ==
    /\ requestId \in DOMAIN reqs
    /\ reqs[requestId][role] = userId
    /\ reqs[requestId].status = "pending"

\* MeetingRequest.findOneAndUpdate(filter, { status }, { new: true }): the
\* collection afterwards; the call returns null exactly when nothing matches
findOneAndUpdate(reqs, requestId, role, userId, status) ==
    IF matchesFilter(reqs, requestId, role, userId)
    THEN [reqs EXCEPT ![requestId].status = status]
    ELSE reqs

meetResponse(code, handler, requestId, userId) ==
    [status |-> code, handler |-> handler, requestId |-> requestId, user |-> userId]

CreateMeetingRequest ==
    /\ Len(requests) < MaxRequests
    /\ \E studentId \in Students, teacherId \in MeetUsers :
        IF teacherId \notin Teachers
        THEN /\ meetRes' = meetResponse(404, "createMeetingRequest", 0, studentId)
             /\ UNCHANGED requests
        ELSE /\ requests' = Append(requests, newRequest(studentId, teacherId))
             /\ meetRes' = meetResponse(201, "createMeetingRequest",
                                        Len(requests) + 1, studentId)
    /\ UNCHANGED <<meetOk, fnVars, rankVars, sysVars, chatVars, socketVars, winVars>>

UpdateRequestStatus ==
    /\ \E requestId \in RequestIds, teacherId \in MeetUsers, status \in StatusUpdates :
        IF status \notin {"accepted", "rejected"}
        THEN /\ meetRes' = meetResponse(400, "updateRequestStatus", requestId, teacherId)
             /\ UNCHANGED <<requests, meetOk>>
        ELSE /\ requests' = findOneAndUpdate(requests, requestId, "teacher",
                                             teacherId, status)
             /\ IF matchesFilter(requests, requestId, "teacher", teacherId)
                THEN /\ meetRes' = meetResponse(200, "updateRequestStatus",
                                                requestId, teacherId)
                     /\ meetOk' = meetOk \cup {<<requestId, "updateRequestStatus">>}
                ELSE /\ meetRes' = meetResponse(404, "updateRequestStatus",
                                                requestId, teacherId)
                     /\ UNCHANGED meetOk
    /\ UNCHANGED <<fnVars, rankVars, sysVars, chatVars, socketVars, winVars>>

CancelRequest ==
    /\ \E requestId \in RequestIds, studentId \in MeetUsers :
        /\ requests' = findOneAndUpdate(requests, requestId, "student",
                                        studentId, "cancelled")
        /\ IF matchesFilter(requests, requestId, "student", studentId)
           THEN /\ meetRes' = meetResponse(200, "cancelRequest", requestId, studentId)
                /\ meetOk' = meetOk \cup {<<requestId, "cancelRequest">>}
           ELSE /\ meetRes' = meetResponse(404, "cancelRequest", requestId, studentId)
                /\ UNCHANGED meetOk
    /\ UNCHANGED <<fnVars, rankVars, sysVars, chatVars, socketVars, winVars>>

NextMeeting == CreateMeetingRequest \/ UpdateRequestStatus \/ CancelRequest

\* the server and the page start with empty collections and nothing open
SpecMeeting == Init /\ [][NextMeeting]_vars

\* the handlers that answered 200 for request id
SucceededOn(ok, id) == {h \in {"updateRequestStatus", "cancelRequest"} : <<id, h>> \in ok}

\* C27: a request is created 'pending'; its status changes only from 'pending',
\* to 'accepted' or 'rejected' in an updateRequestStatus call of its own teacher
\* or to 'cancelled' in a cancelRequest call of its own student, so the three
\* other statuses are terminal; a call on a request that is no longer pending
\* is answered 404 and changes nothing; and of the calls on one request exactly
\* one is answered 200 once the request has left 'pending', none before.
C27_StatusChangesOnce ==
    [][ /\ \A id \in DOMAIN requests' :
            id \notin DOMAIN requests => requests'[id].status = "pending"
        /\ \A id \in DOMAIN requests :
            /\ id \in DOMAIN requests'
            /\ requests'[id].status # requests[id].status =>
                /\ requests[id].status = "pending"
                /\ meetRes'.status = 200
                /\ meetRes'.requestId = id
                /\ \/ /\ meetRes'.handler = "updateRequestStatus"
                      /\ meetRes'.user = requests[id].teacher
                      /\ requests'[id].status \in {"accepted", "rejected"}
                   \/ /\ meetRes'.handler = "cancelRequest"
                      /\ meetRes'.user = requests[id].student
                      /\ requests'[id].status = "cancelled"
            /\ ( /\ requests[id].status # "pending"
                 /\ meetRes'.requestId = id
                 /\ meetRes'.handler \in {"updateRequestStatus", "cancelRequest"}
                 /\ meetRes'.status # 400 ) =>
                    meetRes'.status = 404 /\ requests' = requests
        /\ meetRes'.status = 404 => requests' = requests
        /\ \A id \in DOMAIN requests' :
            Cardinality(SucceededOn(meetOk', id)) =
                IF requests'[id].status = "pending" THEN 0 ELSE 1
      ]_vars

\* the student's cancel was applied first: the teacher's call on the same
\* request is answered 404 and the request stays cancelled
C27_Witness ==
    /\ Len(requests) >= 1
    /\ requests[1].status = "cancelled"
    /\ meetOk = {<<1, "cancelRequest">>}
    /\ meetRes = meetResponse(404, "updateRequestStatus", 1, requests[1].teacher)


\* ------------------------------------------------------- MessageController
\* User ids are numbered in the order Array.prototype.sort puts the id strings.
\* A document's _id is its position in its collection.  sendMessage awaits
\* every database call, so requests interleave between the calls: one action
\* per call, and the request's local variables are kept in its sends record.
MsgUsers == {1, 2}
UnknownUser == 3
Recipients == MsgUsers \cup {0, UnknownUser}

\* [userId1, userId2].sort()
sortParticipants(userId1, userId2) ==
    IF userId2 < userId1 THEN <<userId2, userId1>> ELSE <<userId1, userId2>>

\* the query { participants: { $all: participants, $size: 2 } }
matchesParticipants(conversation, participants) ==
    /\ Len(conversation.participants) = 2
    /\ \A i \in DOMAIN participants :
        \E j \in DOMAIN conversation.participants :
            conversation.participants[j] = participants[i]

\* Conversation.findOne(query): the _id of the first match in natural order, or
\* 0 for null
findOne(convs, participants) ==
    LET hits == {id \in DOMAIN convs : matchesParticipants(convs[id], participants)}
    IN  IF hits = {} THEN 0 ELSE CHOOSE id \in hits : \A other \in hits : id <= other

newConversation(participants) == [participants |-> participants, lastMessage |-> 0]

newMessage(conversationId, senderId, recipientId) ==
    [conversationId |-> conversationId, sender |-> senderId,
     recipient |-> recipientId, read |-> FALSE]

\* userSockets[userId], 0 for undefined
socketOf(map, userId) ==
    LET hits == {i \in DOMAIN map : map[i][1] = userId}
    IN  IF hits = {} THEN 0 ELSE map[CHOOSE i \in hits : TRUE][2]

\* the sockets reached by io.to(socketId).emit(...): a connected socket is in
\* the room named by its own id
socketsInSocketRoom(socketId) ==
    {id \in DOMAIN sockets : sockets[id] = "open" /\ id = socketId}

\* the sockets reached by io.to(userId).emit(...): the connected sockets that
\* joined the room userId
socketsInUserRoom(userId) ==
    {id \in DOMAIN sockets : sockets[id] = "open" /\ userId \in rooms[id]}

\* lines 108-117: the emission to the recipient and the 201 response
sendResponse(messageId, recipientId) ==
    LET recipientSocketId == socketOf(userSockets, recipientId)
    IN  [status |-> 201, message |-> messageId, recipient |-> recipientId,
         online |-> recipientSocketId # 0,
         receiveMessage |-> IF recipientSocketId # 0
                            THEN socketsInSocketRoom(recipientSocketId) ELSE {}]

sendError(code) ==
    [status |-> code, message |-> 0, recipient |-> 0, online |-> FALSE,
     receiveMessage |-> {}]

\* lines 75-89: validation, User.findById, and the call of
\* getOrCreateConversation up to its findOne
StartSendMessage ==
    /\ Len(sends) < MaxSends
    /\ \E senderId \in MsgUsers, recipientId \in Recipients :
        IF recipientId = 0
        THEN msgRes' = sendError(400) /\ UNCHANGED sends
        ELSE IF recipientId \notin MsgUsers
        THEN msgRes' = sendError(404) /\ UNCHANGED sends
        ELSE /\ sends' = Append(sends, [pc |-> "findOne", sender |-> senderId,
                                        recipient |-> recipientId,
                                        conversation |-> 0, message |-> 0])
             /\ UNCHANGED msgRes
    /\ UNCHANGED <<conversations, messages>>
    /\ UNCHANGED <<fnVars, rankVars, sysVars, meetVars, socketVars, winVars>>

\* lines 8-14: the database answers findOne
FindOneConversation(i) ==
    /\ sends[i].pc = "findOne"
    /\ LET participants == sortParticipants(sends[i].sender, sends[i].recipient)
           conversation == findOne(conversations, participants)
       IN  sends' = [sends EXCEPT ![i].conversation = conversation,
                                  ![i].pc = IF conversation = 0 THEN "create"
                                            ELSE "saveMessage"]
    /\ UNCHANGED <<conversations, messages, msgRes>>
    /\ UNCHANGED <<fnVars, rankVars, sysVars, meetVars, socketVars, winVars>>

\* lines 15-16: new Conversation({ participants }) and its save
CreateConversation(i) ==
    /\ sends[i].pc = "create"
    /\ conversations' = Append(conversations, newConversation(
                            sortParticipants(sends[i].sender, sends[i].recipient)))
    /\ sends' = [sends EXCEPT ![i].conversation = Len(conversations) + 1,
                              ![i].pc = "saveMessage"]
    /\ UNCHANGED <<messages, msgRes>>
    /\ UNCHANGED <<fnVars, rankVars, sysVars, meetVars, socketVars, winVars>>

\* lines 91-98: new Message(...) and its save
SaveMessage(i) ==
    /\ sends[i].pc = "saveMessage"
    /\ messages' = Append(messages, newMessage(sends[i].conversation,
                                               sends[i].sender, sends[i].recipient))
    /\ sends' = [sends EXCEPT ![i].message = Len(messages) + 1,
                              ![i].pc = "saveConversation"]
    /\ UNCHANGED <<conversations, msgRes>>
    /\ UNCHANGED <<fnVars, rankVars, sysVars, meetVars, socketVars, winVars>>

\* lines 100-102: conversation.lastMessage = newMessage._id and its save
SaveConversation(i) ==
    /\ sends[i].pc = "saveConversation"
    /\ conversations' = [conversations EXCEPT
                            ![sends[i].conversation].lastMessage = sends[i].message]
    /\ sends' = [sends EXCEPT ![i].pc = "respond"]
    /\ UNCHANGED <<messages, msgRes>>
    /\ UNCHANGED <<fnVars, rankVars, sysVars, meetVars, socketVars, winVars>>

\* lines 105-117: Message.findById, the emission and the response
RespondSendMessage(i) ==
    /\ sends[i].pc = "respond"
    /\ msgRes' = sendResponse(sends[i].message, sends[i].recipient)
    /\ sends' = [sends EXCEPT ![i].pc = "done"]
    /\ UNCHANGED <<conversations, messages>>
    /\ UNCHANGED <<fnVars, rankVars, sysVars, meetVars, socketVars, winVars>>

NextMessages ==
    \/ StartSendMessage
    \/ \E i \in DOMAIN sends : FindOneConversation(i)
    \/ \E i \in DOMAIN sends : CreateConversation(i)
    \/ \E i \in DOMAIN sends : SaveMessage(i)
    \/ \E i \in DOMAIN sends : SaveConversation(i)
    \/ \E i \in DOMAIN sends : RespondSendMessage(i)

\* the server and the page start with empty collections and nothing open
SpecMessages == Init /\ [][NextMessages]_vars

\* the users a conversation is between
ParticipantsOf(conversation) ==
    {conversation.participants[j] : j \in DOMAIN conversation.participants}

\* C28: for two different users at most one Conversation has exactly these two
\* as participants, and every message one of them sent to the other carries the
\* id of a conversation between the two.
C28_OneConversationPerPair ==
    /\ \A a, b \in DOMAIN conversations :
        ( /\ ParticipantsOf(conversations[a]) = ParticipantsOf(conversations[b])
          /\ Cardinality(ParticipantsOf(conversations[a])) = 2 ) => a = b
    /\ \A m \in DOMAIN messages :
        messages[m].sender # messages[m].recipient =>
            /\ messages[m].conversationId \in DOMAIN conversations
            /\ ParticipantsOf(conversations[messages[m].conversationId]) =
                   {messages[m].sender, messages[m].recipient}


\* ------------------------------------------------- io.on('connection', ...)
\* The socket handlers of server.js with sendMessage of MessageController.js.
\* A socket's id is its position in sockets: ids are never used again.
\* userSockets keeps its entries in insertion order, the order for...in
\* enumerates the keys of the object in.

\* userSockets[userId] = socketId: an existing key keeps its place
setSocket(map, userId, socketId) ==
    IF \E i \in DOMAIN map : map[i][1] = userId
    THEN [i \in DOMAIN map |-> IF map[i][1] = userId THEN <<userId, socketId>>
                               ELSE map[i]]
    ELSE Append(map, <<userId, socketId>>)

\* the loop of the disconnect handler: delete the first entry whose value is
\* socketId, then break
removeSocket(map, socketId) ==
    LET hits == {i \in DOMAIN map : map[i][2] = socketId}
        first == CHOOSE i \in hits : \A other \in hits : i <= other
    IN  IF hits = {} THEN map
        ELSE [i \in 1..(Len(map) - 1) |-> IF i < first THEN map[i] ELSE map[i + 1]]

\* io.on('connection')
Connect ==
    /\ Len(sockets) < MaxSockets
    /\ sockets' = Append(sockets, "open")
    /\ rooms' = Append(rooms, {})
    /\ UNCHANGED userSockets
    /\ UNCHANGED <<fnVars, rankVars, sysVars, meetVars, chatVars, winVars>>

\* socket.on('join')
Join(id, userId) ==
    /\ sockets[id] = "open"
    /\ IF userId # 0
       THEN /\ userSockets' = setSocket(userSockets, userId, id)
            /\ rooms' = [rooms EXCEPT ![id] = @ \cup {userId}]
       ELSE UNCHANGED <<userSockets, rooms>>
    /\ UNCHANGED sockets
    /\ UNCHANGED <<fnVars, rankVars, sysVars, meetVars, chatVars, winVars>>

\* socket.on('sendMessage'): nothing is stored, the event is passed on to the
\* recipient's room when userSockets has an entry for the recipient
OnSendMessage(id, recipientId) ==
    /\ sockets[id] = "open"
    /\ msgRes' = [status |-> 0, message |-> 0, recipient |-> recipientId,
                  online |-> socketOf(userSockets, recipientId) # 0,
                  receiveMessage |-> IF socketOf(userSockets, recipientId) # 0
                                     THEN socketsInUserRoom(recipientId) ELSE {}]
    /\ UNCHANGED <<conversations, messages, sends>>
    /\ UNCHANGED <<fnVars, rankVars, sysVars, meetVars, socketVars, winVars>>

\* socket.on('disconnect'): the socket has left its rooms
Disconnect(id) ==
    /\ sockets[id] = "open"
    /\ sockets' = [sockets EXCEPT ![id] = "closed"]
    /\ rooms' = [rooms EXCEPT ![id] = {}]
    /\ userSockets' = removeSocket(userSockets, id)
    /\ UNCHANGED <<fnVars, rankVars, sysVars, meetVars, chatVars, winVars>>

\* sendMessage of MessageController.js, handled with no other sendMessage
\* request between its database calls
SendMessage ==
    /\ Len(messages) < MaxSends
    /\ \E senderId \in MsgUsers, recipientId \in Recipients :
        IF recipientId = 0
        THEN msgRes' = sendError(400) /\ UNCHANGED <<conversations, messages>>
        ELSE IF recipientId \notin MsgUsers
        THEN msgRes' = sendError(404) /\ UNCHANGED <<conversations, messages>>
        ELSE LET participants == sortParticipants(senderId, recipientId)
                 found == findOne(conversations, participants)
                 created == IF found = 0
                            THEN Append(conversations, newConversation(participants))
                            ELSE conversations
                 conversation == IF found = 0 THEN Len(conversations) + 1 ELSE found
                 message == Len(messages) + 1
             IN  /\ messages' = Append(messages, newMessage(conversation, senderId,
                                                            recipientId))
                 /\ conversations' = [created EXCEPT
                                         ![conversation].lastMessage = message]
                 /\ msgRes' = sendResponse(message, recipientId)
    /\ UNCHANGED sends
    /\ UNCHANGED <<fnVars, rankVars, sysVars, meetVars, socketVars, winVars>>

NextSockets ==
    \/ Connect
    \/ \E id \in DOMAIN sockets, userId \in MsgUsers \cup {0} : Join(id, userId)
    \/ \E id \in DOMAIN sockets, recipientId \in MsgUsers : OnSendMessage(id, recipientId)
    \/ \E id \in DOMAIN sockets : Disconnect(id)
    \/ SendMessage

\* the server and the page start with empty collections and nothing open
SpecSockets == Init /\ [][NextSockets]_vars

\* the connected sockets that joined under userId
JoinedSockets(userId) ==
    {id \in DOMAIN sockets : sockets[id] = "open" /\ userId \in rooms[id]}

\* C29: when sendMessage stores a message for a recipient with a connected
\* socket that joined under the recipient's id, userSockets has an entry for
\* the recipient that refers to a connected socket and receiveMessage reaches
\* a socket; and no userSockets entry ever refers to a socket that has
\* disconnected.
C29_OnlineRecipientNotified ==
    [][ /\ Len(messages') > Len(messages) =>
            LET recipientId == messages'[Len(messages')].recipient
            IN  JoinedSockets(recipientId) # {} =>
                    /\ msgRes'.online
                    /\ socketOf(userSockets, recipientId) # 0
                    /\ sockets[socketOf(userSockets, recipientId)] = "open"
                    /\ msgRes'.receiveMessage # {}
        /\ \A i \in DOMAIN userSockets' : sockets'[userSockets'[i][2]] = "open"
      ]_vars


\* ------------------------------------------------------------ WindowManager
\* openWindows is a Set: its elements are kept, and copied by Array.from, in
\* insertion order.  A listener is a callback that keeps the array it is given.
\* An operation is worked on a record [open, notified]: the set, and the arrays
\* passed to the listeners so far in the call.
WindowIds == {"message", "meeting", "notes", "profile"}
exclusiveGroups == <<"message", "meeting">>

has(open, windowId) == \E i \in DOMAIN open : open[i] = windowId

\* Set.prototype.add, Set.prototype.delete
add(open, windowId) == IF has(open, windowId) THEN open ELSE Append(open, windowId)
delete(open, windowId) == SelectSeq(open, LAMBDA w : w # windowId)

\* notifyListeners: getOpenWindows() once, passed to each listener in turn
notifyListeners(w, n) ==
    [w EXCEPT !.notified = @ \o [i \in 1..n |-> w.open]]

closeWindow(w, windowId, n) ==
    IF has(w.open, windowId)
    THEN notifyListeners([w EXCEPT !.open = delete(w.open, windowId)], n)
    ELSE w

RECURSIVE closeOthersFrom(_, _, _, _)
\* the loop over groupWindows, from position k on
closeOthersFrom(w, windowId, n, k) ==
    IF k > Len(exclusiveGroups) THEN w
    ELSE closeOthersFrom(
            IF exclusiveGroups[k] # windowId /\ has(w.open, exclusiveGroups[k])
            THEN closeWindow(w, exclusiveGroups[k], n) ELSE w,
            windowId, n, k + 1)

closeConflictingNone(w, windowId, n) == w

\* lines 36-53: close the other windows of windowId's group, if it has one
closeConflicting(w, windowId, n) ==
    IF \E k \in DOMAIN exclusiveGroups : exclusiveGroups[k] = windowId
    THEN closeOthersFrom(w, windowId, n, 1)
    ELSE w

openWindow(w, windowId, n) ==
    IF windowId = "" THEN w
    ELSE LET closed == closeConflicting(w, windowId, n)
         IN  notifyListeners([closed EXCEPT !.open = add(closed.open, windowId)], n)

closeAllWindows(w, n) == notifyListeners([w EXCEPT !.open = <<>>], n)

\* the manager as a call finds it
Called == [open |-> openWindows, notified |-> <<>>]

AddChangeListener ==
    /\ listeners < MaxListeners
    /\ listeners' = listeners + 1
    /\ UNCHANGED <<openWindows, snapshots>>
    /\ UNCHANGED <<fnVars, rankVars, sysVars, meetVars, chatVars, socketVars>>

\* the function addChangeListener returned
RemoveChangeListener ==
    /\ listeners > 0
    /\ listeners' = listeners - 1
    /\ UNCHANGED <<openWindows, snapshots>>
    /\ UNCHANGED <<fnVars, rankVars, sysVars, meetVars, chatVars, socketVars>>

OpenWindow ==
    /\ \E windowId \in WindowIds \cup {""} :
        LET w == openWindow(Called, windowId, listeners)
        IN  openWindows' = w.open /\ snapshots' = w.notified
    /\ UNCHANGED listeners
    /\ UNCHANGED <<fnVars, rankVars, sysVars, meetVars, chatVars, socketVars>>

CloseWindow ==
    /\ \E windowId \in WindowIds \cup {""} :
        LET w == closeWindow(Called, windowId, listeners)
        IN  openWindows' = w.open /\ snapshots' = w.notified
    /\ UNCHANGED listeners
    /\ UNCHANGED <<fnVars, rankVars, sysVars, meetVars, chatVars, socketVars>>

CloseAllWindows ==
    /\ LET w == closeAllWindows(Called, listeners)
       IN  openWindows' = w.open /\ snapshots' = w.notified
    /\ UNCHANGED listeners
    /\ UNCHANGED <<fnVars, rankVars, sysVars, meetVars, chatVars, socketVars>>

NextWindows ==
    \/ AddChangeListener
    \/ RemoveChangeListener
    \/ OpenWindow
    \/ CloseWindow
    \/ CloseAllWindows

\* the server and the page start with empty collections and nothing open
SpecWindows == Init /\ [][NextWindows]_vars

InGroup(windowId) == \E k \in DOMAIN exclusiveGroups : exclusiveGroups[k] = windowId
BothOpen(open) == has(open, "message") /\ has(open, "meeting")

\* C30: after every call 'message' and 'meeting' are not both open, nor are
\* they both in any array passed to a listener during the call; a call that
\* opens a window closes the other window of its exclusive group and leaves
\* every other window as it was.
C30_ExclusiveWindows ==
    [][ /\ ~BothOpen(openWindows')
        /\ \A i \in DOMAIN snapshots' : ~BothOpen(snapshots'[i])
        /\ \A windowId \in WindowIds :
            (~has(openWindows, windowId) /\ has(openWindows', windowId)) =>
                \A other \in WindowIds \ {windowId} :
                    has(openWindows', other) <=>
                        ( /\ has(openWindows, other)
                          /\ ~(InGroup(windowId) /\ InGroup(other)) )
      ]_vars

\* openWindow('meeting') with 'message' and 'notes' open and a listener
\* registered: the listener saw 'message' closed, then 'meeting' opened
C30_Witness ==
    /\ openWindows = <<"notes", "meeting">>
    /\ snapshots = << <<"notes">>, <<"notes", "meeting">> >>

====
